---- MODULE Spec2Model ----
(***************************************************************************)
(* Bookmark sync engine of application-services (components/places):       *)
(* the incoming applicator, the merge applier, the outgoing stager and the *)
(* finalizer, as a state machine over the relational store.                *)
(*                                                                         *)
(* The store is one record `db` whose fields are the tables; `saved` is    *)
(* the last committed image of the store while a transaction is open, so   *)
(* that a rollback is `db' = saved`.                                       *)
(***************************************************************************)
EXTENDS Integers, Sequences, FiniteSets, TLC

VARIABLES
    db,         \* the tables of the connection (see EmptyDb)
    saved,      \* image of db at the last BEGIN/COMMIT of the open transaction
    pc,         \* position of the engine in the sync cycle
    inbound,    \* IncomingChangeset: [timestamp, changes] being applied
    outgoing,   \* records of the OutgoingChangeset returned by apply_incoming
    request,    \* `since` of the last CollectionRequest built
    cycles,     \* number of sync cycles started
    hist        \* observations used only by the properties

vars == <<db, saved, pc, inbound, outgoing, request, cycles, hist>>

NULL == "NULL"

\* NULL in the integer columns: a NULL placeId, an absent dateAdded
NoPlace == 0

NoDate == -1

\* A ServerTimestamp is a count of seconds with two decimals, kept here as
\* the number of hundredths; as_millis gives milliseconds.
as_millis(timestamp) == timestamp * 10

\* ServerTimestamp(millis as f64 / 1000.0)
from_millis(millis) == millis \div 10

(***************************************************************************)
(* Bounds of the model.                                                    *)
(***************************************************************************)
MaxCounter == 2     \* largest syncChangeCounter the editing API is let reach
MaxBatch == 2       \* longest incoming batch
MaxCycles == 2      \* sync cycles followed

(***************************************************************************)
(* Small helpers over finite functions ("tables keyed by a column").       *)
(***************************************************************************)
Put(t, k, row) == [x \in (DOMAIN t) \cup {k} |-> IF x = k THEN row ELSE t[x]]

Range(s) == {s[i] : i \in 1..Len(s)}

EmptyTable == [x \in {} |-> NULL]

(***************************************************************************)
(* Reserved roots and the wire-id translation (record.rs).                 *)
(***************************************************************************)
RootGuid == "root________"

UserRoots == {"menu________", "toolbar_____", "unfiled_____", "mobile______"}

from_sync_record_id(id) ==
    CASE id = "places"  -> RootGuid
      [] id = "menu"    -> "menu________"
      [] id = "toolbar" -> "toolbar_____"
      [] id = "unfiled" -> "unfiled_____"
      [] id = "mobile"  -> "mobile______"
      [] OTHER          -> NULL

as_sync_record_id(guid) ==
    CASE guid = RootGuid       -> "places"
      [] guid = "menu________" -> "menu"
      [] guid = "toolbar_____" -> "toolbar"
      [] guid = "unfiled_____" -> "unfiled"
      [] guid = "mobile______" -> "mobile"
      [] OTHER                 -> NULL

\* Variant: the wire id is taken for the GUID as it is.
id_to_guid_same(id) == id

id_to_guid(id) ==
    IF from_sync_record_id(id) # NULL THEN from_sync_record_id(id) ELSE id

guid_to_id(guid) ==
    IF as_sync_record_id(guid) # NULL THEN as_sync_record_id(guid) ELSE guid

map_id_to_guid(id) == IF id = NULL THEN NULL ELSE id_to_guid(id)

(***************************************************************************)
(* URLs.  Url::parse is the `url` crate: a string without a scheme is a    *)
(* relative URL and fails to parse; an http(s) URL with an empty path gets *)
(* the path "/".  Everything else is kept as written.                      *)
(***************************************************************************)
URL_LENGTH_MAX == 32

TAG_LENGTH_MAX == 12

RESULTS_AS_TAG_CONTENTS == "7"

RECURSIVE IndexOf(_, _, _)
IndexOf(s, c, i) ==
    IF i > Len(s) THEN 0
    ELSE IF SubSeq(s, i, i) = c THEN i
    ELSE IndexOf(s, c, i + 1)

StartsWith(s, p) == Len(s) >= Len(p) /\ SubSeq(s, 1, Len(p)) = p

Tail_from(s, i) == IF i > Len(s) THEN "" ELSE SubSeq(s, i, Len(s))

Url_parse(href) ==
    LET colon == IndexOf(href, ":", 1) IN
    IF colon <= 1 THEN NULL
    ELSE IF StartsWith(href, "http://") \/ StartsWith(href, "https://")
         THEN LET hostStart == IndexOf(href, "/", 1) + 2 IN
              IF hostStart > Len(href) THEN NULL
              ELSE IF IndexOf(href, "/", hostStart) = 0 THEN href \o "/"
              ELSE href
         ELSE href

Url_path(url) == Tail_from(url, IndexOf(url, ":", 1) + 1)

\* url::form_urlencoded::parse: pairs split on '&', key and value on the first '='
RECURSIVE form_urlencoded_parse(_)
form_urlencoded_parse(s) ==
    IF s = "" THEN <<>>
    ELSE LET amp  == IndexOf(s, "&", 1)
             item == IF amp = 0 THEN s ELSE SubSeq(s, 1, amp - 1)
             rest == IF amp = 0 THEN "" ELSE Tail_from(s, amp + 1)
             eq   == IndexOf(item, "=", 1)
             pair == IF eq = 0 THEN <<item, "">>
                     ELSE <<SubSeq(item, 1, eq - 1), Tail_from(item, eq + 1)>>
         IN  IF item = "" THEN form_urlencoded_parse(rest)
             ELSE <<pair>> \o form_urlencoded_parse(rest)

\* Variant: only the first pair is written.
form_urlencoded_serialize_first(pairs) ==
    IF pairs = <<>> THEN "" ELSE pairs[1][1] \o "=" \o pairs[1][2]

\* url::form_urlencoded::Serializer: k=v joined by '&'
RECURSIVE form_urlencoded_serialize(_)
form_urlencoded_serialize(pairs) ==
    IF pairs = <<>> THEN ""
    ELSE LET h == pairs[1][1] \o "=" \o pairs[1][2] IN
         IF Len(pairs) = 1 THEN h
         ELSE h \o "&" \o form_urlencoded_serialize(Tail(pairs))

\* str::trim on the ASCII space
RECURSIVE trim(_)
trim(t) ==
    IF t = "" THEN t
    ELSE IF SubSeq(t, 1, 1) = " " THEN trim(Tail_from(t, 2))
    ELSE IF SubSeq(t, Len(t), Len(t)) = " " THEN trim(SubSeq(t, 1, Len(t) - 1))
    ELSE t

\* Variant: the tag is not trimmed.
validate_tag_untrimmed(tag) ==
    IF tag = NULL THEN NULL
    ELSE IF Len(tag) = 0 \/ Len(tag) > TAG_LENGTH_MAX THEN NULL ELSE tag

validate_tag(tag) ==
    IF tag = NULL THEN NULL
    ELSE LET t == trim(tag) IN
         IF Len(t) = 0 \/ Len(t) > TAG_LENGTH_MAX THEN NULL ELSE t

(***************************************************************************)
(* The store.  Row ids of moz_bookmarks are identified with the GUID of    *)
(* the row (both are unique keys of the table); row ids of moz_places are  *)
(* the positions in the sequence `places` (INTEGER PRIMARY KEY, assigned   *)
(* in insertion order).                                                    *)
(***************************************************************************)
TITLE_LENGTH_MAX == 8

BookmarkRow(parent, position, type, url, counter, status, dateAdded) ==
    [parentGuid |-> parent, position |-> position, type |-> type, url |-> url,
     syncChangeCounter |-> counter, syncStatus |-> status, dateAdded |-> dateAdded]

\* create_bookmark_roots: every root is a folder, syncChangeCounter 1, New
create_bookmark_roots ==
    [g \in UserRoots \cup {RootGuid} |->
        BookmarkRow(IF g = RootGuid THEN NULL ELSE RootGuid,
                    CASE g = "toolbar_____" -> 1
                      [] g = "unfiled_____" -> 2
                      [] g = "mobile______" -> 3
                      [] OTHER -> 0,
                    "folder", NULL, 1, "New", 0)]

\* Variant: the row is written as already merged.
MirrorRow_merged(parent, modified, deleted, kind, dateAdded, title, placeId, keyword, feedUrl, siteUrl, validity) ==
    [parentGuid |-> parent, serverModified |-> modified, needsMerge |-> FALSE,
     isDeleted |-> deleted, kind |-> kind, dateAdded |-> dateAdded,
     title |-> title, placeId |-> placeId, keyword |-> keyword,
     feedUrl |-> feedUrl, siteUrl |-> siteUrl, validity |-> validity]

MirrorRow(parent, modified, deleted, kind, dateAdded, title, placeId, keyword, feedUrl, siteUrl, validity) ==
    [parentGuid |-> parent, serverModified |-> modified, needsMerge |-> TRUE,
     isDeleted |-> deleted, kind |-> kind, dateAdded |-> dateAdded,
     title |-> title, placeId |-> placeId, keyword |-> keyword,
     feedUrl |-> feedUrl, siteUrl |-> siteUrl, validity |-> validity]

\* The mirror of a new database holds the five roots, already merged.
InitialMirror ==
    [g \in UserRoots \cup {RootGuid} |->
        [MirrorRow(IF g = RootGuid THEN NULL ELSE RootGuid, 0, FALSE, "Folder",
                   0, NULL, NoPlace, NULL, NULL, NULL, "Valid")
         EXCEPT !.needsMerge = FALSE]]

InitialStructure ==
    [g \in UserRoots |->
        [parentGuid |-> RootGuid, position |-> create_bookmark_roots[g].position]]

EmptyDb ==
    [bookmarks         |-> create_bookmark_roots,   \* moz_bookmarks
     deleted           |-> {},                      \* moz_bookmarks_deleted
     synced            |-> InitialMirror,           \* moz_bookmarks_synced
     structure         |-> InitialStructure,        \* moz_bookmarks_synced_structure
     places            |-> <<>>,                    \* moz_places
     meta              |-> {},                      \* moz_meta[bookmarks_last_sync_time]
     mergedTree        |-> {},
     itemsToRemove     |-> {},
     idsToWeaklyUpload |-> {},
     itemsToUpload     |-> EmptyTable,
     structureToUpload |-> {}]

\* SELECT id FROM moz_places WHERE url_hash = hash(:url) AND url = :url
PlaceIdOf(places, url) ==
    IF url = NULL \/ ~(\E i \in 1..Len(places) : places[i] = url) THEN NoPlace
    ELSE CHOOSE i \in 1..Len(places) : places[i] = url

PlaceUrl(places, placeId) == IF placeId = NoPlace THEN NULL ELSE places[placeId]

maybe_truncate_title(t) ==
    IF t = NULL THEN NULL
    ELSE IF Len(t) > TITLE_LENGTH_MAX THEN SubSeq(t, 1, TITLE_LENGTH_MAX) ELSE t

NULLIF(v, w) == IF v = w THEN NULL ELSE v

(***************************************************************************)
(* Incoming applicator (incoming.rs).  Every operator returns the new      *)
(* store; maybe_store_* return [url, places] with url = NULL on Err.       *)
(***************************************************************************)
\* Variant: every URL that is stored gets a row of its own.
maybe_store_url_always(places, url) ==
    IF url = NULL \/ Len(url) > URL_LENGTH_MAX THEN [url |-> NULL, places |-> places]
    ELSE [url |-> url, places |-> Append(places, url)]

\* Variant: a URL that is in the table already is an error.
maybe_store_url_once(places, url) ==
    IF url = NULL \/ Len(url) > URL_LENGTH_MAX \/ PlaceIdOf(places, url) # NoPlace
    THEN [url |-> NULL, places |-> places]
    ELSE [url |-> url, places |-> Append(places, url)]

\* Variant: a URL of any length is stored.
maybe_store_url_unbounded(places, url) ==
    IF url = NULL THEN [url |-> NULL, places |-> places]
    ELSE [url |-> url,
          places |-> IF PlaceIdOf(places, url) # NoPlace THEN places
                      ELSE Append(places, url)]

maybe_store_url(places, url) ==
    IF url = NULL THEN [url |-> NULL, places |-> places]
    ELSE IF Len(url) > URL_LENGTH_MAX THEN [url |-> NULL, places |-> places]
    ELSE [url |-> url,
          places |-> IF PlaceIdOf(places, url) # NoPlace THEN places
                      ELSE Append(places, url)]

\* Variant: the href is stored as it was written.
maybe_store_href_raw(places, href) == maybe_store_url(places, href)

maybe_store_href(places, href) ==
    IF href = NULL THEN maybe_store_url(places, NULL)
    ELSE maybe_store_url(places, Url_parse(href))

store_incoming_bookmark(d, modified, b) ==
    LET r        == maybe_store_href(d.places, b.bmkUri)
        validity == IF r.url # NULL THEN "Valid" ELSE "Replace"
    IN  [d EXCEPT
            !.places = r.places,
            !.synced = Put(@, id_to_guid(b.id),
                MirrorRow(map_id_to_guid(b.parentid), as_millis(modified), FALSE,
                          "Bookmark", b.dateAdded,
                          NULLIF(maybe_truncate_title(b.title), ""),
                          PlaceIdOf(r.places, r.url), b.keyword, NULL, NULL,
                          validity))]

\* Variant: the children are numbered after the rows the folder already has.
store_children_after(structure, folderGuid, children, position) ==
    LET had == Cardinality({g \in DOMAIN structure :
                                structure[g].parentGuid = folderGuid})
    IN  [g \in DOMAIN structure \cup Range(children) |->
            IF g \in Range(children)
            THEN [parentGuid |-> folderGuid,
                  position |-> had + position - 1
                      + (CHOOSE i \in 1..Len(children) : children[i] = g)]
            ELSE structure[g]]

\* REPLACE INTO moz_bookmarks_synced_structure, one statement per child; the
\* key of the table is the child's guid.
RECURSIVE store_children(_, _, _, _)
store_children(structure, folderGuid, children, position) ==
    IF children = <<>> THEN structure
    ELSE store_children(
            Put(structure, Head(children),
                [parentGuid |-> folderGuid, position |-> position]),
            folderGuid, Tail(children), position + 1)

store_incoming_folder(d, modified, b) ==
    [d EXCEPT
        !.synced = Put(@, id_to_guid(b.id),
            MirrorRow(map_id_to_guid(b.parentid), as_millis(modified), FALSE, "Folder",
                      b.dateAdded, NULLIF(maybe_truncate_title(b.title), ""),
                      NoPlace, NULL, NULL, NULL, "Valid")),
        !.structure = store_children(@, id_to_guid(b.id),
                                     b.children, 0)]

\* Variant: a row that is there is marked as deleted and keeps its content.
store_incoming_tombstone_mark(d, modified, guid) ==
    IF guid \in DOMAIN d.synced
    THEN [d EXCEPT !.synced[guid].isDeleted = TRUE,
                   !.synced[guid].needsMerge = TRUE,
                   !.synced[guid].serverModified = as_millis(modified)]
    ELSE [d EXCEPT
            !.synced = Put(@, guid,
                MirrorRow(NULL, as_millis(modified), TRUE, NULL, 0, NULL, NoPlace, NULL,
                          NULL, NULL, "Valid"))]

store_incoming_tombstone(d, modified, guid) ==
    [d EXCEPT
        !.synced = Put(@, guid,
            MirrorRow(NULL, as_millis(modified), TRUE, NULL, 0, NULL, NoPlace, NULL, NULL,
                      NULL, "Valid"))]

determine_query_url_and_validity(places, q, url) ==
    LET parse == form_urlencoded_parse(Url_path(url))
        IsType7(k, v) == k = "type" /\ v = RESULTS_AS_TAG_CONTENTS
        IsFolder(k, v) == k = "folder"
        IsExclude(k, v) == k = "excludeItems" /\ v = "1"
        tag == validate_tag(q.folderName)
        first ==
            IF (\E i \in 1..Len(parse) : IsType7(parse[i][1], parse[i][2]))
            THEN IF tag # NULL
                 THEN [url |-> Url_parse("place:tag=" \o tag), validity |-> "Reupload"]
                 ELSE [url |-> NULL, validity |-> "Replace"]
            ELSE IF (\E i \in 1..Len(parse) : IsFolder(parse[i][1], parse[i][2]))
                 THEN IF (\E i \in 1..Len(parse) : IsExclude(parse[i][1], parse[i][2]))
                      THEN [url |-> url, validity |-> "Valid"]
                      ELSE [url |-> Url_parse("place:" \o form_urlencoded_serialize(
                                        Append(parse, <<"excludeItems", "1">>))),
                            validity |-> "Reupload"]
                 ELSE [url |-> url, validity |-> "Valid"]
        r == maybe_store_url(places, first.url)
    IN  [url |-> r.url, places |-> r.places,
         validity |-> IF r.url # NULL THEN first.validity ELSE "Replace"]

store_incoming_query(d, modified, q) ==
    LET parsed == IF q.bmkUri = NULL THEN NULL ELSE Url_parse(q.bmkUri)
        r == IF parsed # NULL
             THEN determine_query_url_and_validity(d.places, q, parsed)
             ELSE [url |-> NULL, places |-> d.places, validity |-> "Replace"]
    IN  [d EXCEPT
            !.places = r.places,
            !.synced = Put(@, id_to_guid(q.id),
                MirrorRow(map_id_to_guid(q.parentid), as_millis(modified), FALSE, "Query",
                          q.dateAdded, NULLIF(maybe_truncate_title(q.title), ""),
                          PlaceIdOf(r.places, r.url), NULL, NULL, NULL,
                          r.validity))]

\* Variant: the length of the URL is not looked at.
validate_href_unbounded(h) ==
    IF h = NULL THEN NULL ELSE Url_parse(h)

validate_href(h) ==
    IF h = NULL THEN NULL
    ELSE IF Url_parse(h) = NULL THEN NULL
    ELSE IF Len(Url_parse(h)) > URL_LENGTH_MAX THEN NULL
    ELSE Url_parse(h)

store_incoming_livemark(d, modified, l) ==
    LET feed_url == validate_href(l.feedUri)
        site_url == validate_href(l.siteUri)
    IN  [d EXCEPT
            !.synced = Put(@, id_to_guid(l.id),
                MirrorRow(map_id_to_guid(l.parentid), as_millis(modified), FALSE,
                          "Livemark", l.dateAdded, l.title, NoPlace, NULL,
                          feed_url, site_url,
                          IF feed_url # NULL THEN "Valid" ELSE "Replace"))]

store_incoming_sep(d, modified, s) ==
    [d EXCEPT
        !.synced = Put(@, id_to_guid(s.id),
            MirrorRow(map_id_to_guid(s.parentid), as_millis(modified), FALSE,
                      "Separator", s.dateAdded, NULL, NoPlace, NULL, NULL, NULL,
                      "Valid"))]

KnownKinds == {"bookmark", "query", "folder", "livemark", "separator"}

\* BookmarkItemRecord::from_payload accepts the payload (a tombstone, or a
\* record of a kind the deserializer knows); any other kind panics.
from_payload_ok(payload) == payload.deleted \/ payload.type \in KnownKinds

apply_payload(d, timestamp, payload) ==
    IF payload.deleted THEN store_incoming_tombstone(d, timestamp, payload.id)
    ELSE CASE payload.type = "bookmark"  -> store_incoming_bookmark(d, timestamp, payload)
           [] payload.type = "query"     -> store_incoming_query(d, timestamp, payload)
           [] payload.type = "folder"    -> store_incoming_folder(d, timestamp, payload)
           [] payload.type = "livemark"  -> store_incoming_livemark(d, timestamp, payload)
           [] payload.type = "separator" -> store_incoming_sep(d, timestamp, payload)
           [] OTHER -> d

(***************************************************************************)
(* Gate and local tree (store.rs).                                         *)
(***************************************************************************)
\* LOCAL_ITEMS_SQL_FRAGMENT: the rows of moz_bookmarks that descend from the
\* root row (the root row itself is not one of them).
RECURSIVE localItemsFrom(_, _)
localItemsFrom(bookmarks, seen) ==
    LET more == {g \in DOMAIN bookmarks :
                    /\ g # RootGuid
                    /\ bookmarks[g].parentGuid \in seen \cup {RootGuid}}
    IN  IF more = seen THEN seen ELSE localItemsFrom(bookmarks, more)

localItems(bookmarks) == localItemsFrom(bookmarks, {})

\* Variant: the change counters of the local items are not looked at.
has_changes_no_local(d) ==
    \/ \E g \in DOMAIN d.synced :
          /\ d.synced[g].needsMerge
          /\ (~d.synced[g].isDeleted \/ g \in DOMAIN d.bookmarks)
    \/ d.deleted # {}

has_changes(d) ==
    \/ \E g \in DOMAIN d.synced :
          /\ d.synced[g].needsMerge
          /\ (~d.synced[g].isDeleted \/ g \in DOMAIN d.bookmarks)
    \/ \E g \in localItems(d.bookmarks) : d.bookmarks[g].syncChangeCounter > 0
    \/ d.deleted # {}

\* TypeToKind: a bookmark whose URL starts with "place:" is a query
type_to_kind(type, url) ==
    CASE type = "bookmark" ->
            IF url # NULL /\ StartsWith(url, "place:") THEN "Query" ELSE "Bookmark"
      [] type = "folder" -> "Folder"
      [] OTHER -> "Separator"

kind_to_type(kind) ==
    CASE kind \in {"Bookmark", "Query"} -> "bookmark"
      [] kind \in {"Folder", "Livemark"} -> "folder"
      [] OTHER -> "separator"

Min(a, b) == IF a < b THEN a ELSE b

(***************************************************************************)
(* Applier (store.rs, apply and its steps).  A step returns [ok, db];      *)
(* ok = FALSE is an Err of the statement.                                   *)
(***************************************************************************)
Ok(d) == [ok |-> TRUE, db |-> d]

Err(d) == [ok |-> FALSE, db |-> d]

\* The statements of update_local_items that fill mergedTree and itemsToRemove.
insert_merge_rows(d, m) ==
    [d EXCEPT !.mergedTree = @ \cup m.descendants,
              !.itemsToRemove = @ \cup m.deletions]

\* Store-side triggers fired by the DELETEs of update_local_items: items the
\* merger took from the remote side are inserted or updated from their mirror
\* row, the structure is reassigned, removed items leave the tree (with a
\* local tombstone when asked for), and the mirror rows of the merged and of
\* the removed items, tombstones included, lose needsMerge.
merge_triggers(d) ==
    LET remote  == {r \in d.mergedTree : r.useRemote /\ r.remoteGuid \in DOMAIN d.synced}
        removed == {x.guid : x \in d.itemsToRemove}
        renamed == {r.localGuid : r \in {x \in remote : x.localGuid # NULL
                                                        /\ x.localGuid # x.mergedGuid}}
        RowOf(g) == CHOOSE r \in remote : r.mergedGuid = g
        Applied(g) ==
            LET r == RowOf(g)
                v == d.synced[r.remoteGuid]
                old == IF r.localGuid # NULL /\ r.localGuid \in DOMAIN d.bookmarks
                       THEN d.bookmarks[r.localGuid].dateAdded ELSE v.dateAdded
            IN  BookmarkRow(r.mergedParentGuid, r.position, kind_to_type(v.kind),
                            PlaceUrl(d.places, v.placeId),
                            IF r.shouldUpload THEN 1 ELSE 0, "Normal",
                            Min(old, v.dateAdded))
        keep == (DOMAIN d.bookmarks \ (removed \cup renamed))
                    \cup {r.mergedGuid : r \in remote}
        flagged == {r.remoteGuid : r \in d.mergedTree}
                       \cup {r.mergedGuid : r \in d.mergedTree} \cup removed
    IN  [d EXCEPT
            !.bookmarks = [g \in keep \ removed |->
                              IF \E r \in remote : r.mergedGuid = g THEN Applied(g)
                              ELSE d.bookmarks[g]],
            !.deleted = (@ \ {r.mergedGuid : r \in remote})
                            \cup {x.guid : x \in {y \in d.itemsToRemove :
                                                    y.shouldUploadTombstone}},
            !.synced = [g \in DOMAIN d.synced |->
                           IF g \in flagged
                           THEN [d.synced[g] EXCEPT !.needsMerge = FALSE]
                           ELSE d.synced[g]],
            !.itemsToRemove = {}]

update_local_items(d, m) == Ok(merge_triggers(insert_merge_rows(d, m)))

\* INSERT OR IGNORE INTO idsToWeaklyUpload
stage_weak_uploads(d) ==
    Ok([d EXCEPT !.idsToWeaklyUpload = @ \cup
        {g \in DOMAIN d.bookmarks :
            \E r \in d.mergedTree :
                /\ r.mergedGuid = g
                /\ r.remoteGuid \in DOMAIN d.synced
                /\ r.useRemote
                /\ d.bookmarks[g].dateAdded < d.synced[r.remoteGuid].dateAdded}])

UploadRow(d, g) ==
    [id |-> g, syncChangeCounter |-> d.bookmarks[g].syncChangeCounter,
     isDeleted |-> FALSE, parentGuid |-> d.bookmarks[g].parentGuid,
     kind |-> type_to_kind(d.bookmarks[g].type, d.bookmarks[g].url),
     url |-> d.bookmarks[g].url, position |-> d.bookmarks[g].position]

TombstoneRow ==
    [id |-> NULL, syncChangeCounter |-> 1, isDeleted |-> TRUE, parentGuid |-> NULL,
     kind |-> NULL, url |-> NULL, position |-> 0]

\* Variant: only the weakly uploaded items are staged.
ItemsToStage_weak(d) ==
    {g \in localItems(d.bookmarks) : g \in d.idsToWeaklyUpload}

\* WHERE s.syncChangeCounter >= 1 OR w.id NOT NULL
ItemsToStage(d) ==
    {g \in localItems(d.bookmarks) :
        d.bookmarks[g].syncChangeCounter >= 1 \/ g \in d.idsToWeaklyUpload}

\* INSERT INTO itemsToUpload ... FROM localItems: the guid of a row of
\* itemsToUpload is unique, so a row left by an earlier cycle makes the
\* statement fail.
stage_items(d) ==
    LET new == ItemsToStage(d) IN
    IF new \cap DOMAIN d.itemsToUpload # {} THEN Err(d)
    ELSE Ok([d EXCEPT !.itemsToUpload =
                [g \in DOMAIN d.itemsToUpload \cup new |->
                    IF g \in new THEN UploadRow(d, g) ELSE d.itemsToUpload[g]]])

\* INSERT INTO structureToUpload ... JOIN itemsToUpload o ON o.id = b.parent
stage_structure(d) ==
    Ok([d EXCEPT !.structureToUpload = @ \cup
        {[guid |-> g, parentId |-> d.bookmarks[g].parentGuid,
          position |-> d.bookmarks[g].position] :
            g \in {b \in DOMAIN d.bookmarks :
                    \E o \in DOMAIN d.itemsToUpload :
                        d.itemsToUpload[o].id = d.bookmarks[b].parentGuid}}])

\* INSERT OR IGNORE INTO itemsToUpload(guid, syncChangeCounter, isDeleted)
stage_tombstones(d) ==
    Ok([d EXCEPT !.itemsToUpload =
            [g \in DOMAIN d.itemsToUpload \cup d.deleted |->
                IF g \in DOMAIN d.itemsToUpload THEN d.itemsToUpload[g]
                ELSE TombstoneRow]])

\* DELETE FROM mergedTree; DELETE FROM idsToWeaklyUpload
clear_merge_tables(d) ==
    Ok([d EXCEPT !.mergedTree = {}, !.idsToWeaklyUpload = {}])

ApplySteps == 6

apply_step(d, m, k) ==
    CASE k = 1 -> update_local_items(d, m)
      [] k = 2 -> stage_weak_uploads(d)
      [] k = 3 -> stage_items(d)
      [] k = 4 -> stage_structure(d)
      [] k = 5 -> stage_tombstones(d)
      [] OTHER -> clear_merge_tables(d)

\* The steps 1..n chained with and_then: the first Err ends the chain.
RECURSIVE apply_steps(_, _, _)
apply_steps(d, m, n) ==
    IF n = 0 THEN Ok(d)
    ELSE LET before == apply_steps(d, m, n - 1) IN
         IF before.ok THEN apply_step(before.db, m, n) ELSE before

\* Variant: the changes of the failed transaction stay.
keep_changes(begun, current) == current

\* Variant: the changes of a transaction that went through are dropped.
drop_changes(begun, current) == begun

\* tx.rollback(): the store returns to the image taken when the transaction began
rollback(begun, current) == begun

\* tx.commit()
commit(begun, current) == current

\* apply(descendants, deletions), with `fails` the step at which the store
\* reports an error (0: none).
apply(d, m, fails) ==
    IF ~has_changes(d) THEN Ok(d)
    ELSE LET result == IF fails = 0 THEN apply_steps(d, m, ApplySteps)
                       ELSE LET part == apply_steps(d, m, fails - 1) IN
                            IF part.ok THEN Err(part.db) ELSE part
         IN  IF result.ok THEN Ok(commit(d, result.db))
             ELSE Err(rollback(d, result.db))

(***************************************************************************)
(* Outgoing records and finalizer (store.rs).                              *)
(***************************************************************************)
\* SELECT parentId, guid FROM structureToUpload ORDER BY parentId, position,
\* as the list of child guids of one parent
RECURSIVE children_in_order(_)
children_in_order(rows) ==
    IF rows = {} THEN <<>>
    ELSE LET first == CHOOSE r \in rows : \A o \in rows : r.position <= o.position
         IN  <<first.guid>> \o children_in_order(rows \ {first})

OutgoingRecord(id, deleted, type, parentid, children, bmkUri) ==
    [id |-> id, deleted |-> deleted, type |-> type, parentid |-> parentid,
     children |-> children, bmkUri |-> bmkUri]

\* Kinds whose Serialize arm is unimplemented!()
UnserializableKinds == {"Query", "Separator"}

\* Variant: the children of a folder are read from moz_bookmarks.
outgoing_record_live(d, g) ==
    LET row == d.itemsToUpload[g] IN
    IF row.isDeleted
    THEN OutgoingRecord(guid_to_id(g), TRUE, NULL, NULL, <<>>, NULL)
    ELSE IF row.kind = "Folder"
    THEN OutgoingRecord(guid_to_id(g), FALSE, "folder", row.parentGuid,
            children_in_order({[guid |-> c, parentId |-> row.id,
                                position |-> d.bookmarks[c].position] :
                                  c \in {b \in DOMAIN d.bookmarks :
                                           d.bookmarks[b].parentGuid = row.id}}),
            NULL)
    ELSE OutgoingRecord(guid_to_id(g), FALSE, "bookmark", row.parentGuid, <<>>,
                        row.url)

\* The record inflated for one row of itemsToUpload
outgoing_record(d, g) ==
    LET row == d.itemsToUpload[g] IN
    IF row.isDeleted
    THEN OutgoingRecord(guid_to_id(g), TRUE, NULL, NULL, <<>>, NULL)
    ELSE IF row.kind = "Folder"
    THEN OutgoingRecord(guid_to_id(g), FALSE, "folder", row.parentGuid,
            children_in_order({r \in d.structureToUpload : r.parentId = row.id}),
            NULL)
    ELSE OutgoingRecord(guid_to_id(g), FALSE, "bookmark", row.parentGuid, <<>>,
                        row.url)

\* ok = FALSE: the call panics or returns an error and no changeset is built
fetch_outgoing_records(d) ==
    LET live == {g \in DOMAIN d.itemsToUpload : ~d.itemsToUpload[g].isDeleted} IN
    IF \E g \in live : \/ d.itemsToUpload[g].kind \in UnserializableKinds
                       \/ (d.itemsToUpload[g].kind = "Bookmark"
                            /\ d.itemsToUpload[g].url = NULL)
    THEN [ok |-> FALSE, changes |-> {}]
    ELSE [ok |-> TRUE,
          changes |-> {outgoing_record(d, g) :
                          g \in {x \in DOMAIN d.itemsToUpload :
                                    d.itemsToUpload[x].isDeleted
                                    \/ d.itemsToUpload[x].kind # "Livemark"}}]

\* pushUploadedChanges, fired for one row of itemsToUpload whose uploadedAt
\* is set: the local counter goes down by the staged amount, the status
\* becomes Normal, the mirror row is rewritten as merged, and an uploaded
\* tombstone is forgotten.
pushUploadedChanges(d, uploaded_at, g) ==
    LET row == d.itemsToUpload[g] IN
    IF row.isDeleted
    THEN [d EXCEPT !.deleted = @ \ {g},
                   !.synced = Put(@, g,
                        [MirrorRow(NULL, uploaded_at, TRUE, NULL, 0, NULL, NoPlace,
                                   NULL, NULL, NULL, "Valid")
                         EXCEPT !.needsMerge = FALSE])]
    ELSE IF row.id \notin DOMAIN d.bookmarks THEN d
    ELSE [d EXCEPT
            !.bookmarks[row.id].syncChangeCounter = @ - row.syncChangeCounter,
            !.bookmarks[row.id].syncStatus = "Normal",
            !.synced = Put(@, g,
                [MirrorRow(row.parentGuid, uploaded_at, FALSE, row.kind,
                           d.bookmarks[row.id].dateAdded, NULL,
                           PlaceIdOf(d.places, row.url), NULL, NULL, NULL, "Valid")
                 EXCEPT !.needsMerge = FALSE])]

RECURSIVE push_rows(_, _, _)
push_rows(d, uploaded_at, rows) ==
    IF rows = {} THEN d
    ELSE LET g == CHOOSE x \in rows : TRUE
         IN  push_rows(pushUploadedChanges(d, uploaded_at, g), uploaded_at,
                       rows \ {g})

\* UPDATE itemsToUpload SET uploadedAt = ... WHERE guid IN (guids)
flag_uploaded(d, uploaded_at, guids) ==
    push_rows(d, as_millis(uploaded_at), DOMAIN d.itemsToUpload \cap guids)

put_meta(d, value) == [d EXCEPT !.meta = {value}]

\* DELETE FROM itemsToUpload; the rows of structureToUpload go with their
\* parents.
delete_items_to_upload(d) ==
    [d EXCEPT !.itemsToUpload = EmptyTable, !.structureToUpload = {}]

PushSteps == 3

\* The first n statements of push_synced_items
push_synced_items(d, uploaded_at, guids, n) ==
    LET flagged == IF n >= 1 THEN flag_uploaded(d, uploaded_at, guids) ELSE d
        stamped == IF n >= 2 THEN put_meta(flagged, as_millis(uploaded_at))
                   ELSE flagged
    IN  IF n >= 3 THEN delete_items_to_upload(stamped) ELSE stamped

\* sync_finished(new_timestamp, records_synced), with `fails` the statement
\* at which the store reports an error (0: none)
sync_finished(d, new_timestamp, records_synced, fails) ==
    IF fails = 0
    THEN Ok(commit(d, push_synced_items(d, new_timestamp, records_synced, PushSteps)))
    ELSE Err(rollback(d, push_synced_items(d, new_timestamp, records_synced,
                                           fails - 1)))

\* Variant: the stored milliseconds are handed over as seconds.
get_collection_request_raw(d) ==
    IF d.meta = {} THEN 0 ELSE CHOOSE millis \in d.meta : TRUE

\* get_collection_request: the `since` of the request
get_collection_request(d) ==
    IF d.meta = {} THEN 0 ELSE from_millis(CHOOSE millis \in d.meta : TRUE)

(***************************************************************************)
(* Editing API (bookmarks.rs).                                             *)
(***************************************************************************)
child_count(bookmarks, parent) ==
    Cardinality({g \in DOMAIN bookmarks : bookmarks[g].parentGuid = parent})

Append_position == -1

\* insert_bookmark for an InsertableBookmarkItem; ok = FALSE for the Err
\* returns.  A Specific position shifts the rows whose parent is the parent
\* of the target folder (":parent" is bound to parent.parent_id).
insert_bookmark(d, guid, parent_guid, position, url, date_added) ==
    IF parent_guid = RootGuid THEN Err(d)
    ELSE IF parent_guid \notin DOMAIN d.bookmarks THEN Err(d)
    ELSE IF d.bookmarks[parent_guid].type # "folder" THEN Err(d)
    ELSE IF guid \in DOMAIN d.bookmarks THEN Err(d)
    ELSE
    LET count == child_count(d.bookmarks, parent_guid)
        index == IF position = Append_position THEN count ELSE Min(position, count)
        grand == d.bookmarks[parent_guid].parentGuid
        moved == IF position = Append_position THEN d.bookmarks
                 ELSE [g \in DOMAIN d.bookmarks |->
                        IF d.bookmarks[g].parentGuid = grand
                           /\ d.bookmarks[g].position >= index
                        THEN [d.bookmarks[g] EXCEPT !.position = @ + 1]
                        ELSE d.bookmarks[g]]
    IN  Ok([d EXCEPT
            !.places = IF PlaceIdOf(@, url) # NoPlace THEN @ ELSE Append(@, url),
            !.bookmarks = Put(moved, guid,
                BookmarkRow(parent_guid, index, "bookmark", url, 1, "New",
                            date_added))])

\* An edit of an existing item through the editing API bumps its counter.
edit_bookmark(d, guid) ==
    [d EXCEPT !.bookmarks[guid].syncChangeCounter = @ + 1]

(***************************************************************************)
(* The merger (dogear) is outside the repository: its result is any merged *)
(* tree that is consistent with the two trees it was given.                *)
(***************************************************************************)
ItemGuids == {"bookmarkAAAA", "bookmarkCCCC"}

MergeOptions == {"none", "local", "remote", "remote_upload", "delete",
                 "delete_upload"}

\* What the merger may decide for a non-root item
merge_options(d, g) ==
    LET local  == g \in DOMAIN d.bookmarks
        mirror == g \in DOMAIN d.synced
        live   == mirror /\ ~d.synced[g].isDeleted
        fresh  == mirror /\ d.synced[g].needsMerge
        changed == local /\ d.bookmarks[g].syncChangeCounter > 0
    IN  CASE local /\ live /\ fresh ->
                {"local", "remote", "remote_upload"}
                    \cup IF changed THEN {} ELSE {"delete_upload"}
          [] local /\ live /\ ~fresh -> {"local"}
          [] local /\ mirror /\ ~live /\ fresh ->
                IF changed THEN {"local"} ELSE {"local", "delete"}
          [] local /\ ~(mirror /\ fresh) /\ ~live -> {"local"}
          [] ~local /\ live /\ fresh -> {"remote", "remote_upload"}
          [] OTHER -> {"none"}

\* The folder a merged item is placed in
merged_parent(d, g) ==
    IF g \in DOMAIN d.bookmarks THEN d.bookmarks[g].parentGuid
    ELSE IF d.synced[g].parentGuid \in DOMAIN d.bookmarks
            /\ d.synced[g].parentGuid # RootGuid
         THEN d.synced[g].parentGuid
         ELSE "unfiled_____"

MergedRow(localGuid, remoteGuid, mergedGuid, mergedParentGuid, position, useRemote, shouldUpload) ==
    [localGuid |-> localGuid, remoteGuid |-> remoteGuid, mergedGuid |-> mergedGuid,
     mergedParentGuid |-> mergedParentGuid, position |-> position,
     useRemote |-> useRemote, shouldUpload |-> shouldUpload]

merged_root(d, g) ==
    MergedRow(g, IF g \in DOMAIN d.synced THEN g ELSE NULL, g, RootGuid,
              d.bookmarks[g].position,
              g \in DOMAIN d.synced /\ d.synced[g].needsMerge,
              d.bookmarks[g].syncChangeCounter > 0)

merged_item(d, g, option) ==
    MergedRow(IF g \in DOMAIN d.bookmarks THEN g ELSE NULL,
              IF g \in DOMAIN d.synced /\ ~d.synced[g].isDeleted THEN g ELSE NULL,
              g, merged_parent(d, g),
              IF g \in DOMAIN d.bookmarks THEN d.bookmarks[g].position
              ELSE child_count(d.bookmarks, merged_parent(d, g)),
              option \in {"remote", "remote_upload"},
              IF option = "local" THEN d.bookmarks[g].syncChangeCounter > 0
              ELSE option = "remote_upload")

merge_result(d, choice) ==
    [descendants |->
        {merged_root(d, g) : g \in UserRoots \cap DOMAIN d.bookmarks}
        \cup {merged_item(d, g, choice[g]) :
                g \in {x \in ItemGuids : choice[x] \in {"local", "remote",
                                                        "remote_upload"}}},
     deletions |->
        {[guid |-> g, shouldUploadTombstone |-> choice[g] = "delete_upload"] :
            g \in {x \in ItemGuids : choice[x] \in {"delete", "delete_upload"}}}]

MergerOutputs(d) ==
    {merge_result(d, choice) :
        choice \in {c \in [ItemGuids -> MergeOptions] :
                        \A g \in ItemGuids : c[g] \in merge_options(d, g)}}

(***************************************************************************)
(* Inputs.                                                                 *)
(***************************************************************************)
Payload(id, deleted, type, parentid, dateAdded, title, bmkUri, folderName, children, feedUri, siteUri, keyword) ==
    [id |-> id, deleted |-> deleted, type |-> type, parentid |-> parentid,
     dateAdded |-> dateAdded, title |-> title, bmkUri |-> bmkUri,
     folderName |-> folderName, children |-> children, feedUri |-> feedUri,
     siteUri |-> siteUri, keyword |-> keyword]

new_tombstone(id) ==
    Payload(id, TRUE, NULL, NULL, NoDate, NULL, NULL, NULL, <<>>, NULL, NULL, NULL)

BookmarkPayload(id, parentid, dateAdded, title, bmkUri) ==
    Payload(id, FALSE, "bookmark", parentid, dateAdded, title, bmkUri, NULL, <<>>,
            NULL, NULL, NULL)

FolderPayload(id, parentid, title, children) ==
    Payload(id, FALSE, "folder", parentid, NoDate, title, NULL, NULL, children,
            NULL, NULL, NULL)

\* The records the server may send during a sync cycle
CyclePayloads ==
    {BookmarkPayload("bookmarkAAAA", "unfiled", 2, "A", "http://a/"),
     BookmarkPayload("bookmarkCCCC", "menu", 2, "C", "http://c/"),
     FolderPayload("menu", "places", "menu", <<"bookmarkCCCC">>),
     new_tombstone("bookmarkAAAA")}

\* The server clock at the download of the n-th cycle
ServerTime(n) == 100 * n

\* The server clock has moved on by the time the upload is done
UploadTime == 50

LocalDates == {1}

RECURSIVE SeqsUpTo(_, _)
SeqsUpTo(S, n) ==
    IF n = 0 THEN {<<>>}
    ELSE LET shorter == SeqsUpTo(S, n - 1)
         IN  shorter \cup {Append(q, x) : q \in shorter, x \in S}

DistinctIds(changes) ==
    \A i, j \in 1..Len(changes) : i # j => changes[i].id # changes[j].id

Batches == {b \in SeqsUpTo(CyclePayloads, MaxBatch) : DistinctIds(b)}

(***************************************************************************)
(* The sync cycle.                                                         *)
(***************************************************************************)
NoTx == "no transaction"

NoHist ==
    [result |-> "none", pre |-> NULL, guids |-> {}, edited |-> {}]

NoInbound == [timestamp |-> 0, changes |-> <<>>, all |-> <<>>]

\* A database whose roots were never uploaded (create_bookmark_roots), or one
\* whose roots an earlier sync has already merged.
InitialDbs ==
    {EmptyDb,
     [EmptyDb EXCEPT !.bookmarks =
        [g \in DOMAIN create_bookmark_roots |->
            [create_bookmark_roots[g] EXCEPT !.syncChangeCounter = 0,
                                             !.syncStatus = "Normal"]]]}

Init ==
    /\ db \in InitialDbs
    /\ saved = NoTx
    /\ pc = "idle"
    /\ inbound = NoInbound
    /\ outgoing = {}
    /\ request = 0
    /\ cycles = 0
    /\ hist = NoHist

Finish(result, pre, guids) ==
    /\ pc' = "done"
    /\ hist' = [result |-> result, pre |-> pre, guids |-> guids,
                edited |-> hist.edited]

GetCollectionRequest ==
    /\ pc = "idle"
    /\ cycles < MaxCycles
    /\ cycles' = cycles + 1
    /\ request' = get_collection_request(db)
    /\ pc' = "download"
    /\ UNCHANGED <<db, saved, inbound, outgoing, hist>>

\* apply_incoming opens the time-chunked transaction
ApplyIncomingBegin ==
    /\ pc = "download"
    /\ \E timestamp \in {ServerTime(cycles)}, changes \in Batches :
          inbound' = [timestamp |-> timestamp, changes |-> changes, all |-> changes]
    /\ saved' = db
    /\ pc' = "ingest"
    /\ UNCHANGED <<db, outgoing, request, cycles, hist>>

\* One turn of the loop: apply_payload, then maybe_commit
IngestRecord ==
    /\ pc = "ingest"
    /\ inbound.changes # <<>>
    /\ from_payload_ok(Head(inbound.changes))
    /\ db' = apply_payload(db, inbound.timestamp, Head(inbound.changes))
    /\ inbound' = [inbound EXCEPT !.changes = Tail(@)]
    /\ \E chunk_ends \in BOOLEAN : saved' = IF chunk_ends THEN db' ELSE saved
    /\ UNCHANGED <<pc, outgoing, request, cycles, hist>>

\* apply_payload panics or returns Err, or a commit (maybe_commit in the
\* loop, tx.commit after it) fails: the open chunk is rolled back
IngestFail ==
    /\ pc = "ingest"
    /\ db' = rollback(saved, db)
    /\ saved' = NoTx
    /\ Finish("ingest_err", NULL, {})
    /\ UNCHANGED <<inbound, outgoing, request, cycles>>

\* Variant: the loop is left and the transaction committed with records
\* still to be applied.
IngestCommit_early ==
    /\ pc = "ingest"
    /\ saved' = NoTx
    /\ pc' = "put_meta"
    /\ UNCHANGED <<db, inbound, outgoing, request, cycles, hist>>

\* tx.commit() after the loop
IngestCommit ==
    /\ pc = "ingest"
    /\ inbound.changes = <<>>
    /\ saved' = NoTx
    /\ pc' = "put_meta"
    /\ UNCHANGED <<db, inbound, outgoing, request, cycles, hist>>

PutMeta ==
    /\ pc = "put_meta"
    /\ \/ /\ db' = put_meta(db, as_millis(inbound.timestamp))
          /\ pc' = "merge"
          /\ UNCHANGED hist
       \/ /\ Finish("meta_err", NULL, {})
          /\ UNCHANGED db
    /\ UNCHANGED <<saved, inbound, outgoing, request, cycles>>

\* merge_with_driver: the merger fails before it calls apply
MergeFail ==
    /\ pc = "merge"
    /\ Finish("merge_err", db, {})
    /\ UNCHANGED <<db, saved, inbound, outgoing, request, cycles>>

\* merge_with_driver: the merger hands its result to apply
Merge ==
    /\ pc = "merge"
    /\ \E m \in MergerOutputs(db), fails \in 0..ApplySteps :
          LET result == apply(db, m, fails) IN
          /\ db' = result.db
          /\ IF result.ok
             THEN /\ pc' = "fetch"
                  /\ hist' = [result |-> IF has_changes(db) THEN "applied" ELSE "skipped",
                              pre |-> db, guids |-> {}, edited |-> {}]
             ELSE Finish("apply_err", db, {})
    /\ UNCHANGED <<saved, inbound, outgoing, request, cycles>>

FetchOutgoing ==
    /\ pc = "fetch"
    /\ LET result == fetch_outgoing_records(db) IN
       IF result.ok
       THEN /\ outgoing' = result.changes
            /\ pc' = "uploading"
            /\ UNCHANGED hist
       ELSE /\ Finish("outgoing_err", NULL, {})
            /\ UNCHANGED outgoing
    /\ UNCHANGED <<db, saved, inbound, request, cycles>>

\* The uploader fails; sync_finished is never called
UploadFail ==
    /\ pc = "uploading"
    /\ Finish("upload_err", db, {})
    /\ UNCHANGED <<db, saved, inbound, outgoing, request, cycles>>

\* The ids the uploader can report: the ids of the records it was given, less
\* any of the item records
AckSets ==
    LET ids == {o.id : o \in outgoing} IN
    {ids \ lost : lost \in SUBSET (ids \cap ItemGuids)}

SyncFinished ==
    /\ pc = "uploading"
    /\ \E new_timestamp \in {inbound.timestamp + UploadTime}, guids \in AckSets,
          fails \in 0..PushSteps :
          LET result == sync_finished(db, new_timestamp, guids, fails) IN
          /\ db' = result.db
          /\ Finish(IF result.ok THEN "finish_ok" ELSE "finish_err", db, guids)
    /\ UNCHANGED <<saved, inbound, outgoing, request, cycles>>

Return ==
    /\ pc = "done"
    /\ pc' = "idle"
    /\ hist' = NoHist
    /\ inbound' = NoInbound
    /\ outgoing' = {}
    /\ request' = 0
    /\ UNCHANGED <<db, saved, cycles>>

\* Temporary tables live as long as the connection
Reconnect ==
    /\ pc = "idle"
    /\ db' = [db EXCEPT !.mergedTree = {}, !.itemsToRemove = {},
                        !.idsToWeaklyUpload = {}, !.itemsToUpload = EmptyTable,
                        !.structureToUpload = {}]
    /\ db' # db
    /\ UNCHANGED <<saved, pc, inbound, outgoing, request, cycles, hist>>

\* The editing API runs while no sync transaction is open
InsertBookmark ==
    /\ pc \in {"idle", "uploading"}
    /\ \E guid \in {"bookmarkAAAA"}, parent_guid \in {"unfiled_____"},
          date_added \in LocalDates :
          LET result == insert_bookmark(db, guid, parent_guid, Append_position,
                                        "http://a/", date_added) IN
          /\ guid \notin db.deleted
          /\ guid \notin DOMAIN db.itemsToUpload
          /\ result.ok
          /\ db' = result.db
    /\ UNCHANGED <<saved, pc, inbound, outgoing, request, cycles, hist>>

\* The items the user goes on editing
EditableGuids == {"bookmarkAAAA"}

EditBookmark ==
    /\ pc \in {"idle", "uploading"}
    /\ \E guid \in EditableGuids \cap DOMAIN db.bookmarks :
          /\ db.bookmarks[guid].syncChangeCounter < MaxCounter
          /\ db' = edit_bookmark(db, guid)
          /\ hist' = IF pc = "uploading"
                     THEN [hist EXCEPT !.edited = @ \cup {guid}]
                     ELSE hist
    /\ UNCHANGED <<saved, pc, inbound, outgoing, request, cycles>>

Next ==
    \/ GetCollectionRequest
    \/ ApplyIncomingBegin
    \/ IngestRecord
    \/ IngestFail
    \/ IngestCommit
    \/ PutMeta
    \/ MergeFail
    \/ Merge
    \/ FetchOutgoing
    \/ UploadFail
    \/ SyncFinished
    \/ Return
    \/ Reconnect
    \/ InsertBookmark
    \/ EditBookmark

Spec == Init /\ [][Next]_vars

(***************************************************************************)
(* The incoming applicator on its own: payloads applied one after another  *)
(* to a new database.  hist.log lists what was applied.                    *)
(***************************************************************************)
MaxApplied == 3     \* payloads applied in a row

IngestPayloads ==
    {BookmarkPayload("bookmarkXXXX", "toolbar", 5, "X", "http://x/"),
     BookmarkPayload("bookmarkXXXX", "toolbar", 5, "", "x"),
     BookmarkPayload("bookmarkYYYY", "folderFFFFFF", NoDate, NULL, "http://x"),
     Payload("queryQQQQQQQ", FALSE, "query", "menu", NoDate, "Q", "place:type=7",
             " t ", <<>>, NULL, NULL, NULL),
     FolderPayload("folderFFFFFF", "menu", "F", <<"bookmarkXXXX", "bookmarkYYYY">>),
     FolderPayload("folderFFFFFF", "menu", "F", <<"bookmarkYYYY">>),
     FolderPayload("toolbar", "places", "toolbar", <<"bookmarkXXXX">>),
     Payload("livemarkLLLL", FALSE, "livemark", "unfiled", NoDate, "L", NULL, NULL,
             <<>>, "http://f/", "s", NULL),
     Payload("separatorSSS", FALSE, "separator", "unfiled", NoDate, NULL, NULL,
             NULL, <<>>, NULL, NULL, NULL),
     new_tombstone("bookmarkXXXX")}

IngestTimes == {100, 200}

InitIngest ==
    /\ db = EmptyDb
    /\ saved = NoTx
    /\ pc = "applicator"
    /\ inbound = NoInbound
    /\ outgoing = {}
    /\ request = 0
    /\ cycles = 0
    /\ hist = [log |-> <<>>]

ApplyPayload ==
    /\ pc = "applicator"
    /\ Len(hist.log) < MaxApplied
    /\ \E payload \in IngestPayloads, timestamp \in IngestTimes :
          /\ db' = apply_payload(db, timestamp, payload)
          /\ hist' = [log |-> Append(hist.log,
                                     [payload |-> payload, timestamp |-> timestamp])]
    /\ UNCHANGED <<saved, pc, inbound, outgoing, request, cycles>>

NextIngest == ApplyPayload

SpecIngest == InitIngest /\ [][NextIngest]_vars

\* The guid of the mirror row a payload is written to
row_guid(payload) == IF payload.deleted THEN payload.id ELSE id_to_guid(payload.id)

\* The mirror with the place of each row named by its URL
MirrorView(d) ==
    [g \in DOMAIN d.synced |->
        [row |-> [d.synced[g] EXCEPT !.placeId = NoPlace],
         url |-> PlaceUrl(d.places, d.synced[g].placeId)]]

RECURSIVE ApplyAll(_, _)
ApplyAll(d, log) ==
    IF log = <<>> THEN d
    ELSE ApplyAll(apply_payload(d, Head(log).timestamp, Head(log).payload), Tail(log))

\* The children list of the folder record last applied for folder guid F
\* (<<>> with found = FALSE when none was)
RECURSIVE LastFolderPayload(_, _)
LastFolderPayload(log, F) ==
    IF log = <<>> THEN [found |-> FALSE, children |-> <<>>]
    ELSE LET last == log[Len(log)].payload IN
         IF ~last.deleted /\ last.type = "folder" /\ id_to_guid(last.id) = F
         THEN [found |-> TRUE, children |-> last.children]
         ELSE LastFolderPayload(SubSeq(log, 1, Len(log) - 1), F)

IngestedFolders(log) ==
    {id_to_guid(log[i].payload.id) :
        i \in {j \in 1..Len(log) : ~log[j].payload.deleted
                                   /\ log[j].payload.type = "folder"}}

\* C3 (as stated): for every folder F that was ingested, the child guids of
\* the structure rows whose parentGuid is F are exactly the children of the
\* folder record of F that was ingested last (the lists have no duplicates, so
\* the multisets are sets).
C3_Original ==
    \A F \in IngestedFolders(hist.log) :
        {g \in DOMAIN db.structure : db.structure[g].parentGuid = F}
            = Range(LastFolderPayload(hist.log, F).children)

SameIds(log, i, j) == log[i].payload.id = log[j].payload.id

IsBatch(log) ==
    /\ \A i, j \in 1..Len(log) : i # j => ~SameIds(log, i, j)
    /\ \A i, j \in 1..Len(log) : log[i].timestamp = log[j].timestamp

Reorderings(log) ==
    {[i \in 1..Len(log) |-> log[f[i]]] : f \in Permutations(1..Len(log))}

\* C4 (as stated): the records of a batch (distinct ids, one timestamp),
\* applied in any other order, give the same mirror rows, the same structure
\* rows and the same set of URLs in the places table.
C4_Original ==
    IsBatch(hist.log) =>
        \A other \in Reorderings(hist.log) :
            LET d == ApplyAll(EmptyDb, other) IN
            /\ MirrorView(d) = MirrorView(db)
            /\ d.structure = db.structure
            /\ Range(d.places) = Range(db.places)

OnlyServerModifiedDiffers(a, b) ==
    /\ DOMAIN a = DOMAIN b
    /\ \A g \in DOMAIN a :
          [a[g] EXCEPT !.serverModified = 0] = [b[g] EXCEPT !.serverModified = 0]

\* C5: applying the payload that was applied last once more with the same
\* timestamp leaves the mirror rows, the structure rows and the places as
\* they are; applying it with a later timestamp changes nothing but the
\* serverModified of mirror rows.
C5_Idempotent ==
    hist.log # <<>> =>
        LET last  == hist.log[Len(hist.log)]
            again == apply_payload(db, last.timestamp, last.payload)
        IN  /\ again.synced = db.synced
            /\ again.structure = db.structure
            /\ again.places = db.places
            /\ \A later \in {t \in IngestTimes : t > last.timestamp} :
                  LET newer == apply_payload(db, later, last.payload) IN
                  /\ OnlyServerModifiedDiffers(newer.synced, db.synced)
                  /\ newer.synced[row_guid(last.payload)].serverModified
                        = as_millis(later)
                  /\ newer.structure = db.structure
                  /\ newer.places = db.places

\* A folder with two children was applied, after other rows were there
C5_Witness ==
    /\ Len(hist.log) >= 2
    /\ hist.log[Len(hist.log)].payload.type = "folder"
    /\ Len(hist.log[Len(hist.log)].payload.children) = 2
    /\ hist.log[Len(hist.log)].timestamp = 100
    /\ Len(db.places) >= 1

(***************************************************************************)
(* Properties of the sync cycle.                                           *)
(***************************************************************************)
Finished(result) == pc = "done" /\ hist.result = result

\* The item is named by the list, as its GUID or as the record id of its GUID
Acknowledged(g, guids) == g \in guids \/ guid_to_id(g) \in guids

StagedLive(d, g) == g \in DOMAIN d.itemsToUpload /\ ~d.itemsToUpload[g].isDeleted

\* C1 (as stated): after a sync_finished that succeeded, every local item
\* named by guids has its counter lowered by the counter of its itemsToUpload
\* row, every other item has its counter unchanged, and itemsToUpload is empty.
C1_Original ==
    Finished("finish_ok") =>
        /\ \A g \in DOMAIN hist.pre.bookmarks :
              /\ g \in DOMAIN db.bookmarks
              /\ db.bookmarks[g].syncChangeCounter =
                    IF Acknowledged(g, hist.guids) /\ StagedLive(hist.pre, g)
                    THEN hist.pre.bookmarks[g].syncChangeCounter
                            - hist.pre.itemsToUpload[g].syncChangeCounter
                    ELSE hist.pre.bookmarks[g].syncChangeCounter
        /\ db.itemsToUpload = EmptyTable

\* C2 (as stated): an item that was edited after it was staged (snapshot s) and is then
\* acknowledged keeps, after sync_finished, the counter it had at the
\* acknowledgment less s, which is more than 0, and staging run on the store
\* as sync_finished left it stages the item again with that counter.
C2_Original ==
    Finished("finish_ok") =>
        \A g \in hist.edited \cap hist.guids :
            StagedLive(hist.pre, g) /\ g \in DOMAIN hist.pre.bookmarks =>
                LET s == hist.pre.itemsToUpload[g].syncChangeCounter
                    again == stage_items(db)
                IN  /\ g \in DOMAIN db.bookmarks
                    /\ db.bookmarks[g].syncChangeCounter
                          = hist.pre.bookmarks[g].syncChangeCounter - s
                    /\ db.bookmarks[g].syncChangeCounter > 0
                    /\ again.ok
                    /\ StagedLive(again.db, g)
                    /\ again.db.itemsToUpload[g].syncChangeCounter
                          = db.bookmarks[g].syncChangeCounter

C2_Witness ==
    /\ Finished("finish_ok")
    /\ "bookmarkAAAA" \in hist.edited \cap hist.guids
    /\ StagedLive(hist.pre, "bookmarkAAAA")
    /\ hist.pre.itemsToUpload["bookmarkAAAA"].syncChangeCounter = 1
    /\ db.bookmarks["bookmarkAAAA"].syncChangeCounter = 1

\* C6: when a step of apply fails after the transaction was opened, every
\* table is as it was before apply.
C6_AtomicApply ==
    Finished("apply_err") => db = hist.pre

\* apply failed on a store in which the merge had rows to change
C6_Witness ==
    /\ Finished("apply_err")
    /\ \E g \in ItemGuids : g \in DOMAIN db.synced /\ db.synced[g].needsMerge
    /\ \E g \in ItemGuids : g \in DOMAIN db.bookmarks
                            /\ db.bookmarks[g].syncChangeCounter > 0

AppliedOk == pc = "fetch" /\ hist.result = "applied"

C8_Step ==
    /\ db'.meta # db.meta =>
          \/ /\ pc = "put_meta" /\ pc' = "merge"
             /\ db'.meta = {10 * inbound.timestamp}
          \/ /\ pc = "uploading" /\ pc' = "done" /\ hist'.result = "finish_ok"
             /\ db'.meta = {10 * (inbound.timestamp + UploadTime)}
    /\ (pc = "put_meta" /\ pc' = "merge") =>
          db'.meta = {10 * inbound.timestamp}
    /\ (pc' = "done" /\ hist'.result = "finish_ok") =>
          db'.meta = {10 * (inbound.timestamp + UploadTime)}
    /\ pc' = "download" =>
          \/ db.meta = {} /\ request' = 0
          \/ db.meta = {10 * request'}

C8_Watermark == [][C8_Step]_vars

\* sync_finished rolled back after the new timestamp was written
C8_Witness ==
    /\ Finished("finish_err")
    /\ db.meta = {as_millis(inbound.timestamp)}
    /\ cycles = 2
    /\ request = 100

IngestedGuids == {row_guid(inbound.all[i]) : i \in 1..Len(inbound.all)}

MergeOrApplyFailed == Finished("merge_err") \/ Finished("apply_err")

\* C9 (as stated): when the cycle fails in the merge or in apply, every
\* mirror row ingested in the cycle still has needsMerge, the stored
\* timestamp is the batch's, and has_changes holds for the next cycle.
C9_Original ==
    MergeOrApplyFailed =>
        /\ \A g \in IngestedGuids : g \in DOMAIN db.synced /\ db.synced[g].needsMerge
        /\ db.meta = {as_millis(inbound.timestamp)}
        /\ has_changes(db)

\* C9 (amended): ... and has_changes holds for the next cycle when one of the
\* ingested rows is no tombstone or has a local item of the same guid.
C9_Amended ==
    MergeOrApplyFailed =>
        /\ \A g \in IngestedGuids : g \in DOMAIN db.synced /\ db.synced[g].needsMerge
        /\ db.meta = {as_millis(inbound.timestamp)}
        /\ (\E g \in IngestedGuids :
                ~db.synced[g].isDeleted \/ g \in DOMAIN db.bookmarks)
              => has_changes(db)

C9_Witness ==
    /\ Finished("apply_err")
    /\ Len(inbound.all) = 2
    /\ \E g \in IngestedGuids : db.synced[g].isDeleted
    /\ \A g \in localItems(db.bookmarks) : db.bookmarks[g].syncChangeCounter = 0

\* The merge of the next cycle when nothing else has changed: every local
\* item is kept as it is
keep_local(d) ==
    merge_result(d, [g \in ItemGuids |->
                        IF g \in DOMAIN d.bookmarks THEN "local" ELSE "none"])

\* C10 (as stated): when the uploader fails or sync_finished rolls back, the
\* counter of every staged item is what it was, and the apply of the next
\* cycle succeeds and stages each of those items again.
C10_Original ==
    (Finished("upload_err") \/ Finished("finish_err")) =>
        LET staged == {g \in DOMAIN db.itemsToUpload :
                          StagedLive(db, g) /\ g \in DOMAIN db.bookmarks}
            next == apply(db, keep_local(db), 0)
        IN  /\ \A g \in staged : db.bookmarks[g].syncChangeCounter
                                    = hist.pre.bookmarks[g].syncChangeCounter
            /\ next.ok
            /\ \A g \in staged :
                  db.bookmarks[g].syncChangeCounter >= 1 =>
                      /\ StagedLive(next.db, g)
                      /\ next.db.itemsToUpload[g].syncChangeCounter
                            = db.bookmarks[g].syncChangeCounter

\* The scratch tables of the connection that the model keeps
ScratchEmpty(d) ==
    /\ d.mergedTree = {}
    /\ d.itemsToRemove = {}
    /\ d.idsToWeaklyUpload = {}
    /\ d.itemsToUpload = EmptyTable
    /\ d.structureToUpload = {}

\* C11 (as stated): at the entry to apply_incoming of every cycle, whatever
\* the earlier cycles did, every scratch table is empty.
C11_Original ==
    pc = "download" => ScratchEmpty(db)

(***************************************************************************)
(* The record model on its own (record.rs): one payload is decoded, and    *)
(* the record is encoded again.  hist holds the payload and the record.    *)
(***************************************************************************)
Record(variant, guid, parent_guid, children, url) ==
    [variant |-> variant, guid |-> guid, parent_guid |-> parent_guid,
     children |-> children, url |-> url]

\* The call does not return: the thread panics
Panicked == Record("panic", NULL, NULL, <<>>, NULL)

\* The call returns an error of the deserializer
DeserializeError == Record("Err", NULL, NULL, <<>>, NULL)

VariantOf(type) ==
    CASE type = "bookmark"  -> "Bookmark"
      [] type = "query"     -> "Query"
      [] type = "folder"    -> "Folder"
      [] type = "livemark"  -> "Livemark"
      [] OTHER              -> "Separator"

\* Deserialize for BookmarkItemRecord: `type` is a required field of the raw
\* record; a type that no arm matches reaches the panic! below the match.
deserialize(payload) ==
    IF payload.type = NULL THEN DeserializeError
    ELSE IF payload.type \in KnownKinds
    THEN Record(VariantOf(payload.type), id_to_guid(payload.id),
                map_id_to_guid(payload.parentid), payload.children, payload.bmkUri)
    ELSE Panicked

from_payload(payload) ==
    IF payload.deleted THEN Record("Tombstone", payload.id, NULL, <<>>, NULL)
    ELSE deserialize(payload)

\* The arms of Serialize that are unimplemented!()
EncodePanic == OutgoingRecord(NULL, FALSE, "panic", NULL, <<>>, NULL)

\* Serialize for BookmarkItemRecord: the id goes through guid_to_id, the
\* parentid is the parent_guid of the record as it is.
serialize(record) ==
    CASE record.variant = "Tombstone" ->
            OutgoingRecord(guid_to_id(record.guid), TRUE, NULL, NULL, <<>>, NULL)
      [] record.variant = "Bookmark" ->
            OutgoingRecord(guid_to_id(record.guid), FALSE, "bookmark",
                           record.parent_guid, <<>>, record.url)
      [] record.variant = "Folder" ->
            OutgoingRecord(guid_to_id(record.guid), FALSE, "folder",
                           record.parent_guid, record.children, NULL)
      [] OTHER -> EncodePanic

RootAliases == {"places", "menu", "toolbar", "unfiled", "mobile"}

\* Ids and parent ids seen on the wire
WireIds == RootAliases \cup {"bookmarkAAAA", "folderFFFFFF", "menu________",
                             "root________"}

WireTypes == KnownKinds \cup {"item", NULL}

WirePayloads ==
    {Payload(id, deleted, type, parentid, NoDate, NULL,
             IF type \in {"bookmark", "query"} THEN "http://a/" ELSE NULL,
             NULL, IF type = "folder" THEN <<"bookmarkAAAA">> ELSE <<>>,
             NULL, NULL, NULL) :
        id \in WireIds, deleted \in BOOLEAN, type \in WireTypes,
        parentid \in WireIds \cup {NULL}}

NoRecord == [payload |-> new_tombstone(NULL), record |-> Panicked]

InitRecord ==
    /\ db = EmptyDb
    /\ saved = NoTx
    /\ pc = "codec"
    /\ inbound = NoInbound
    /\ outgoing = {}
    /\ request = 0
    /\ cycles = 0
    /\ hist = NoRecord

\* BookmarkItemRecord::from_payload on a payload of the server
Decode ==
    /\ pc = "codec"
    /\ \E payload \in WirePayloads :
          LET record == from_payload(payload) IN
          /\ hist' = [payload |-> payload, record |-> record]
          /\ pc' = CASE record = Panicked -> "crashed"
                     [] record = DeserializeError -> "failed"
                     [] OTHER -> "decoded"
    /\ UNCHANGED <<db, saved, inbound, outgoing, request, cycles>>

\* Payload::from_record on the decoded record
Encode ==
    /\ pc = "decoded"
    /\ outgoing' = {serialize(hist.record)}
    /\ pc' = IF serialize(hist.record) = EncodePanic THEN "crashed" ELSE "encoded"
    /\ UNCHANGED <<db, saved, inbound, request, cycles, hist>>

NextRecord == Decode \/ Encode

SpecRecord == InitRecord /\ [][NextRecord]_vars

Decoded == pc \in {"decoded", "encoded", "crashed", "failed"} /\ hist # NoRecord

\* C13 (as stated): a payload with deleted = true decodes to Tombstone(id);
\* any other payload decodes to the variant of its type when the type is one
\* of the five, and to an error value returned to the caller (no crash)
\* when the type is any other.
C13_Original ==
    Decoded =>
        LET p == hist.payload
            r == hist.record
        IN  /\ p.deleted => r.variant = "Tombstone" /\ r.guid = p.id
            /\ (~p.deleted /\ p.type \in KnownKinds) => r.variant = VariantOf(p.type)
            /\ (~p.deleted /\ p.type \notin KnownKinds) => r = DeserializeError

ReservedGuids == UserRoots \cup {RootGuid}

Encoded == CHOOSE e \in outgoing : TRUE

\* C15 (as stated): for a bookmark or folder payload p whose id or parentid is
\* a root alias, the decoded record has the reserved GUID in place of each
\* alias, and the encoding of that record has the id and the parentid of p.
C15_Original ==
    (/\ pc = "encoded"
     /\ hist.payload.type \in {"bookmark", "folder"}
     /\ (hist.payload.id \in RootAliases \/ hist.payload.parentid \in RootAliases))
    =>  LET p == hist.payload
            r == hist.record
        IN  /\ p.id \in RootAliases => r.guid \in ReservedGuids
            /\ p.parentid \in RootAliases => r.parent_guid \in ReservedGuids
            /\ Encoded.id = p.id
            /\ Encoded.parentid = p.parentid

\* C16 (as stated): on the wire id a and the GUID g of a decoded record, the
\* two functions are inverse for the roots, leave every other identifier as it
\* is, and id_to_guid sends no other wire id to the GUID it gives for a.
C16_Original ==
    (Decoded /\ hist.record.variant \notin {"panic", "Err", "Tombstone"}) =>
        LET a == hist.payload.id
            g == hist.record.guid
        IN  /\ a \in RootAliases => guid_to_id(id_to_guid(a)) = a
            /\ g \in ReservedGuids => id_to_guid(guid_to_id(g)) = g
            /\ a \notin RootAliases \cup ReservedGuids =>
                  id_to_guid(a) = a /\ guid_to_id(a) = a
            /\ \A other \in WireIds \ {a} : id_to_guid(other) # id_to_guid(a)

\* C16 (amended): ... and id_to_guid sends no other wire id to the GUID it
\* gives for a, but for a root alias and the reserved GUID it stands for,
\* which both give that GUID.
C16_Amended ==
    (Decoded /\ hist.record.variant \notin {"panic", "Err", "Tombstone"}) =>
        LET a == hist.payload.id
            g == hist.record.guid
        IN  /\ a \in RootAliases => guid_to_id(id_to_guid(a)) = a
            /\ g \in ReservedGuids => id_to_guid(guid_to_id(g)) = g
            /\ a \notin RootAliases \cup ReservedGuids =>
                  id_to_guid(a) = a /\ guid_to_id(a) = a
            /\ a \in ReservedGuids => id_to_guid(a) = a
            /\ a \in RootAliases => guid_to_id(a) = a
            /\ \A other \in WireIds \ {a} :
                  id_to_guid(other) = id_to_guid(a) =>
                      \/ a \in RootAliases /\ other = id_to_guid(a)
                      \/ other \in RootAliases /\ a = id_to_guid(other)

\* The record of a root, sent under the alias of the root, was decoded
C16_Witness ==
    /\ pc = "decoded"
    /\ hist.payload.id = "menu"
    /\ hist.record.guid = "menu________"
    /\ hist.record.variant = "Folder"

(***************************************************************************)
(* The ingestion loop of apply_incoming over batches whose records have    *)
(* content errors; the store itself reports no error here.                 *)
(***************************************************************************)
GoodPayloads ==
    {BookmarkPayload("bookmarkAAAA", "unfiled", 2, "A", "http://a/")}

\* Records with a content error: no URL, a URL that does not parse, a URL
\* that is too long, a tag query without a usable tag, a livemark without a
\* feed, a kind that is not known, a record without a type
BadPayloads ==
    {BookmarkPayload("bookmarkBBBB", "unfiled", 2, "B", NULL),
     BookmarkPayload("bookmarkDDDD", "unfiled", 2, "D", "x"),
     BookmarkPayload("bookmarkEEEE", "unfiled", 2, "E",
                     "http://a/0123456789012345678901234567890123456789"),
     Payload("queryQQQQQQQ", FALSE, "query", "menu", NoDate, "Q", "place:type=7",
             " ", <<>>, NULL, NULL, NULL),
     Payload("livemarkLLLL", FALSE, "livemark", "unfiled", NoDate, "L", NULL, NULL,
             <<>>, NULL, NULL, NULL),
     Payload("itemIIIIIIII", FALSE, "item", "unfiled", NoDate, NULL, NULL, NULL,
             <<>>, NULL, NULL, NULL),
     Payload("itemJJJJJJJJ", FALSE, NULL, "unfiled", NoDate, NULL, NULL, NULL,
             <<>>, NULL, NULL, NULL)}

ContentBatches ==
    {b \in SeqsUpTo(GoodPayloads \cup BadPayloads, MaxBatch) : DistinctIds(b)}

InitBatch ==
    /\ db = EmptyDb
    /\ saved = NoTx
    /\ pc = "download"
    /\ inbound = NoInbound
    /\ outgoing = {}
    /\ request = 0
    /\ cycles = 1
    /\ hist = NoHist

\* apply_incoming is called with a batch of the server
BatchBegin ==
    /\ pc = "download"
    /\ \E changes \in ContentBatches :
          inbound' = [timestamp |-> ServerTime(cycles), changes |-> changes,
                      all |-> changes]
    /\ saved' = db
    /\ pc' = "ingest"
    /\ UNCHANGED <<db, outgoing, request, cycles, hist>>

\* apply_payload does not come back with Ok for the record at the head: the
\* deserializer panics or returns Err, the open chunk is rolled back and
\* apply_incoming is left
IngestAbort ==
    /\ pc = "ingest"
    /\ inbound.changes # <<>>
    /\ ~from_payload_ok(Head(inbound.changes))
    /\ db' = rollback(saved, db)
    /\ saved' = NoTx
    /\ Finish(IF from_payload(Head(inbound.changes)) = Panicked
              THEN "ingest_panic" ELSE "ingest_err", NULL, {})
    /\ UNCHANGED <<inbound, outgoing, request, cycles>>

NextBatch ==
    \/ BatchBegin
    \/ IngestRecord
    \/ IngestAbort
    \/ IngestCommit
    \/ PutMeta

SpecBatch == InitBatch /\ [][NextBatch]_vars

\* C12 (as stated): no record with a content error makes apply_incoming stop;
\* when the merge is reached every record without a content error has its
\* mirror row, and the mirror row of a record with a content error, when one
\* was written, has validity Replace or Reupload.
C12_Original ==
    /\ ~(pc = "done" /\ hist.result \in {"ingest_err", "ingest_panic"})
    /\ pc = "merge" =>
          \A i \in 1..Len(inbound.all) :
              LET p == inbound.all[i]
                  g == row_guid(p)
              IN  IF p \in BadPayloads
                  THEN g \in DOMAIN db.synced =>
                          db.synced[g].validity \in {"Replace", "Reupload"}
                  ELSE g \in DOMAIN db.synced

(***************************************************************************)
(* Local items of each kind that the editing API can create, staged and    *)
(* fetched for upload.                                                     *)
(***************************************************************************)
\* A URL with the place: scheme makes the staged kind Query
LocalUrls == {"http://a/", "place:sort=1"}

\* The store after a first cycle has brought bookmarkAAAA from the server
\* and the download of a second cycle has brought the record again
SyncedOnceDb ==
    LET record == BookmarkPayload("bookmarkAAAA", "unfiled", 2, "A", "http://a/")
        d0 == CHOOSE d \in InitialDbs : d # EmptyDb
        d1 == put_meta(apply_payload(d0, ServerTime(1), record), as_millis(ServerTime(1)))
        d2 == apply(d1, merge_result(d1, [g \in ItemGuids |->
                        IF g = "bookmarkAAAA" THEN "remote" ELSE "none"]), 0).db
    IN  put_meta(apply_payload(d2, ServerTime(2), record), as_millis(ServerTime(2)))

InitOutgoing ==
    /\ db \in InitialDbs \cup {SyncedOnceDb}
    /\ saved = NoTx
    /\ pc = "idle"
    /\ inbound = NoInbound
    /\ outgoing = {}
    /\ request = 0
    /\ cycles = 1
    /\ hist = NoHist

\* The user adds an item, before the sync or between staging and the fetch
LocalInsert ==
    /\ pc \in {"idle", "fetch"}
    /\ \E guid \in ItemGuids, parent_guid \in {"unfiled_____", "menu________"},
          url \in LocalUrls, position \in {0, Append_position} :
          LET result == insert_bookmark(db, guid, parent_guid, position, url, 1) IN
          /\ result.ok
          /\ db' = result.db
    /\ UNCHANGED <<saved, pc, inbound, outgoing, request, cycles, hist>>

\* The merger keeps the local items, or does what else it may do with an
\* item that the server has sent; apply stages what has changed.  The store
\* as it is staged is kept in hist.pre.
StageLocal ==
    /\ pc = "idle"
    /\ \E m \in MergerOutputs(db) \cup {keep_local(db)} :
       LET result == apply(db, m, 0) IN
       /\ result.ok
       /\ db' = result.db
       /\ hist' = [hist EXCEPT !.pre = result.db]
    /\ pc' = "fetch"
    /\ UNCHANGED <<saved, inbound, outgoing, request, cycles>>

NextOutgoing ==
    \/ LocalInsert
    \/ StageLocal
    \/ FetchOutgoing

SpecOutgoing == InitOutgoing /\ [][NextOutgoing]_vars

\* C14 (as stated): once fetch_outgoing_records has run, the changeset holds
\* exactly one payload for each staged row that is not deleted and is a
\* Bookmark, a Query, a Folder or a Separator, and none for a Livemark row.
C14_Original ==
    (pc = "uploading" \/ Finished("outgoing_err")) =>
        \A g \in {x \in DOMAIN db.itemsToUpload : ~db.itemsToUpload[x].isDeleted} :
            LET sent == {e \in outgoing : e.id = guid_to_id(g) /\ ~e.deleted} IN
            IF db.itemsToUpload[g].kind \in {"Bookmark", "Query", "Folder", "Separator"}
            THEN Cardinality(sent) = 1
            ELSE sent = {}

(***************************************************************************)
(* Bookmarks and queries applied one after the other, for the rules on     *)
(* their URLs.  The tags and URLs are printable ASCII without '#', '?' and *)
(* '%', which Url::parse keeps as they are written.                        *)
(***************************************************************************)
MaxContent == 2     \* records applied in a row

TagQueryUris ==
    {"place:type=7", "place:folder=1&type=7", "place:type=7&sort=14&maxResults=10&x=1"}

OtherQueryUris ==
    {NULL, "x", "place:sort=1", "place:folder=1", "place:folder=1&excludeItems=1",
     "place:excludeItems=1&folder=1", "place:folder=1&excludeItems=0",
     "place:folder=123&sort=14", "place:folder=1&excludeItems=1&sort=14",
     "place:sort=14&maxResults=10&queryType=1"}

FolderNames == {NULL, " ", " t ", "a-folder", "0123456789ab", "0123456789abcd"}

QueryPayload(bmkUri, folderName) ==
    Payload("queryQQQQQQQ", FALSE, "query", "menu", NoDate, "Q", bmkUri, folderName,
            <<>>, NULL, NULL, NULL)

BookmarkUris ==
    {NULL, "x", "http://a/", "http://a", "place:sort=1",
     "http://abcdefghijklmnopqrstuvwxy",
     "http://a/0123456789012345678901234567890123456789"}

\* Livemarks whose feed and site URLs are absent, without a scheme, good,
\* or too long
LivemarkPayloads ==
    {Payload("livemarkLLLL", FALSE, "livemark", "unfiled", NoDate, "L", NULL, NULL, <<>>,
             feedUri, siteUri, NULL) :
        feedUri, siteUri \in {NULL, "x", "http://f", "http://s/",
                               "http://f/0123456789012345678901234567890123456789"}}

\* Records of each kind with a title, without one and with an empty one
TitledPayloads ==
    {Payload(IF type = "separator" THEN "separatorSSS" ELSE "titledTTTTTT", FALSE, type,
             "unfiled", NoDate, title,
             IF type \in {"bookmark", "query"} THEN "place:sort=1" ELSE NULL, NULL,
             <<>>, IF type = "livemark" THEN "http://s/" ELSE NULL, NULL, NULL) :
        type \in KnownKinds, title \in {NULL, "", "T"}}

ContentPayloads ==
    {QueryPayload(u, n) : u \in TagQueryUris, n \in FolderNames}
    \cup {QueryPayload(u, NULL) : u \in OtherQueryUris}
    \cup {BookmarkPayload("bookmarkAAAA", "unfiled", 2, "A", u) : u \in BookmarkUris}
    \cup LivemarkPayloads
    \cup TitledPayloads

NoContent == [payload |-> new_tombstone(NULL), pre |-> EmptyDb]

InitContent ==
    /\ db = EmptyDb
    /\ saved = NoTx
    /\ pc = "content"
    /\ inbound = NoInbound
    /\ outgoing = {}
    /\ request = 0
    /\ cycles = 0
    /\ hist = NoContent

\* apply_payload on one record; cycles counts the records applied
ApplyContent ==
    /\ pc = "content"
    /\ cycles < MaxContent
    /\ \E payload \in ContentPayloads :
          /\ db' = apply_payload(db, ServerTime(1), payload)
          /\ hist' = [payload |-> payload, pre |-> db]
    /\ cycles' = cycles + 1
    /\ UNCHANGED <<saved, pc, inbound, outgoing, request>>

NextContent == ApplyContent

SpecContent == InitContent /\ [][NextContent]_vars

\* The record that was applied last, its parsed URL, the pairs of that URL
\* and the mirror row that was written for it
Applied(type) == pc = "content" /\ cycles >= 1 /\ hist.payload.type = type

ParsedUrl == IF hist.payload.bmkUri = NULL THEN NULL ELSE Url_parse(hist.payload.bmkUri)

Pairs == form_urlencoded_parse(Url_path(ParsedUrl))

HasPair(k, v) == \E i \in 1..Len(Pairs) : Pairs[i] = <<k, v>>

HasKey(k) == \E i \in 1..Len(Pairs) : Pairs[i][1] = k

Written == db.synced[id_to_guid(hist.payload.id)]

StoredUrl == PlaceUrl(db.places, Written.placeId)

\* C17: after a query whose parsed URL has the pair type=7 is applied, the
\* mirror row has the URL place:tag=t and validity Reupload when the trimmed
\* folderName t is not empty and at most TAG_LENGTH_MAX long; when the
\* folderName is absent, blank or too long it has validity Replace and no
\* placeId.
C17_TagRewrite ==
    (Applied("query") /\ ParsedUrl # NULL /\ HasPair("type", "7")) =>
        LET name == hist.payload.folderName
            t == IF name = NULL THEN "" ELSE trim(name)
        IN  IF Len(t) >= 1 /\ Len(t) <= TAG_LENGTH_MAX
            THEN /\ StoredUrl = "place:tag=" \o t
                 /\ Written.validity = "Reupload"
            ELSE /\ Written.validity = "Replace"
                 /\ Written.placeId = NoPlace

\* A tag query with a folder pair and a padded folderName was rewritten
C17_Witness ==
    /\ Applied("query")
    /\ hist.payload.bmkUri = "place:folder=1&type=7"
    /\ hist.payload.folderName = " t "
    /\ StoredUrl = "place:tag=t"
    /\ Written.validity = "Reupload"

\* The folder rule applies and the pair excludeItems=1 has to be added
NeedsExclude == HasKey("folder") /\ ~HasPair("excludeItems", "1")

\* The URL that the rules give for the query that was applied; NULL when
\* the tag of a tag query is not usable
ResultingUrl ==
    IF HasPair("type", "7")
    THEN IF validate_tag(hist.payload.folderName) = NULL THEN NULL
         ELSE "place:tag=" \o validate_tag(hist.payload.folderName)
    ELSE IF NeedsExclude
         THEN "place:" \o form_urlencoded_serialize(
                              Append(Pairs, <<"excludeItems", "1">>))
         ELSE ParsedUrl

\* C18 (as stated): after a query without a type=7 pair is applied, the
\* stored URL is the URL of the record with validity Valid when it has no
\* folder key or has the pair excludeItems=1, and otherwise its pairs are the
\* pairs of the record in their order followed by excludeItems=1, with
\* validity Reupload.
C18_Original ==
    (Applied("query") /\ ParsedUrl # NULL /\ ~HasPair("type", "7")) =>
        IF NeedsExclude
        THEN /\ StoredUrl # NULL
             /\ form_urlencoded_parse(Url_path(StoredUrl))
                    = Append(Pairs, <<"excludeItems", "1">>)
             /\ Written.validity = "Reupload"
        ELSE /\ StoredUrl = hist.payload.bmkUri
             /\ Written.validity = "Valid"

\* C18 (amended): the same, for a query whose resulting URL is at most
\* URL_LENGTH_MAX long; when the resulting URL is longer, the row has
\* validity Replace and no placeId.
C18_Amended ==
    (Applied("query") /\ ParsedUrl # NULL /\ ~HasPair("type", "7")) =>
        IF Len(ResultingUrl) > URL_LENGTH_MAX
        THEN /\ Written.validity = "Replace"
             /\ Written.placeId = NoPlace
        ELSE IF NeedsExclude
        THEN /\ StoredUrl # NULL
             /\ StartsWith(StoredUrl, "place:")
             /\ form_urlencoded_parse(Url_path(StoredUrl))
                    = Append(Pairs, <<"excludeItems", "1">>)
             /\ Written.validity = "Reupload"
        ELSE /\ StoredUrl = hist.payload.bmkUri
             /\ Written.validity = "Valid"

\* A folder query without excludeItems=1 was rewritten
C18_Witness ==
    /\ Applied("query")
    /\ hist.payload.bmkUri = "place:folder=1"
    /\ StoredUrl = "place:folder=1&excludeItems=1"
    /\ Written.validity = "Reupload"

\* C19: after a query is applied whose bmkUri is missing or does not parse,
\* or whose resulting URL is longer than URL_LENGTH_MAX, its mirror row is
\* there, is of kind Query, and has validity Replace and no placeId.
C19_Fallback ==
    (/\ Applied("query")
     /\ \/ ParsedUrl = NULL
        \/ ResultingUrl # NULL /\ Len(ResultingUrl) > URL_LENGTH_MAX) =>
        /\ id_to_guid(hist.payload.id) \in DOMAIN db.synced
        /\ ~Written.isDeleted
        /\ Written.kind = "Query"
        /\ Written.validity = "Replace"
        /\ Written.placeId = NoPlace

\* A folder query that fits by itself but not with excludeItems=1 appended
\* was stored for replacement
C19_Witness ==
    /\ Applied("query")
    /\ hist.payload.bmkUri = "place:folder=123&sort=14"
    /\ Len(hist.payload.bmkUri) <= URL_LENGTH_MAX
    /\ Len(ResultingUrl) > URL_LENGTH_MAX
    /\ Written.validity = "Replace"
    /\ Written.placeId = NoPlace

\* C20: after a bookmark is applied whose URL parses and is at most
\* URL_LENGTH_MAX long, its mirror row has validity Valid and its placeId is
\* the id of the one places row with that URL; after a bookmark whose URL
\* is missing, does not parse or is too long, the row has validity Replace,
\* no placeId, and the places table is as it was.
C20_BookmarkValidity ==
    Applied("bookmark") =>
        IF ParsedUrl # NULL /\ Len(ParsedUrl) <= URL_LENGTH_MAX
        THEN /\ Written.validity = "Valid"
             /\ Written.placeId # NoPlace
             /\ db.places[Written.placeId] = ParsedUrl
             /\ Cardinality({i \in 1..Len(db.places) : db.places[i] = ParsedUrl}) = 1
        ELSE /\ Written.validity = "Replace"
             /\ Written.placeId = NoPlace
             /\ db.places = hist.pre.places

\* A bookmark was applied whose URL, once parsed, is already in the places
\* table
C20_Witness ==
    /\ Applied("bookmark")
    /\ hist.payload.bmkUri = "http://a"
    /\ PlaceIdOf(hist.pre.places, "http://a/") # NoPlace
    /\ Written.placeId = PlaceIdOf(hist.pre.places, "http://a/")
    /\ Written.validity = "Valid"

\* The href parses and its parsed form is at most URL_LENGTH_MAX long
HrefOk(h) == h # NULL /\ Url_parse(h) # NULL /\ Len(Url_parse(h)) <= URL_LENGTH_MAX

\* C21: after a livemark is applied, its feed URL and its site URL are each
\* stored (as parsed) when they parse and are at most URL_LENGTH_MAX long and
\* are NULL otherwise, whatever the other one is; the validity is Valid when
\* the feed URL was stored and Replace when it was not; the places table is
\* as it was.
C21_LivemarkValidity ==
    Applied("livemark") =>
        LET feed == hist.payload.feedUri
            site == hist.payload.siteUri
        IN  /\ Written.kind = "Livemark"
            /\ Written.feedUrl = IF HrefOk(feed) THEN Url_parse(feed) ELSE NULL
            /\ Written.siteUrl = IF HrefOk(site) THEN Url_parse(site) ELSE NULL
            /\ Written.validity = IF HrefOk(feed) THEN "Valid" ELSE "Replace"
            /\ Written.placeId = NoPlace
            /\ db.places = hist.pre.places

\* A livemark with a good feed URL and a site URL that is too long was applied
C21_Witness ==
    /\ Applied("livemark")
    /\ hist.payload.feedUri = "http://f"
    /\ hist.payload.siteUri = "http://f/0123456789012345678901234567890123456789"
    /\ Written.feedUrl = "http://f/"
    /\ Written.siteUrl = NULL
    /\ Written.validity = "Valid"

\* C22: after any sequence of applied payloads, every mirror row that is
\* deleted has no parent, kind, place, title, keyword, feed URL or site URL,
\* needs merging and has validity Valid; the mirror has one row per GUID (it
\* is keyed by the GUID), so the row of a live record that a tombstone
\* followed is that deleted row.
C22_DeletedRows ==
    pc = "applicator" =>
        /\ \A g \in DOMAIN db.synced :
              db.synced[g].isDeleted =>
                  /\ db.synced[g].parentGuid = NULL
                  /\ db.synced[g].kind = NULL
                  /\ db.synced[g].placeId = NoPlace
                  /\ db.synced[g].title = NULL
                  /\ db.synced[g].keyword = NULL
                  /\ db.synced[g].feedUrl = NULL
                  /\ db.synced[g].siteUrl = NULL
                  /\ db.synced[g].needsMerge
                  /\ db.synced[g].validity = "Valid"
        /\ \A i \in 1..Len(hist.log) :
              (/\ hist.log[i].payload.deleted
               /\ \A j \in (i + 1)..Len(hist.log) :
                     row_guid(hist.log[j].payload) # row_guid(hist.log[i].payload)) =>
                  /\ row_guid(hist.log[i].payload) \in DOMAIN db.synced
                  /\ db.synced[row_guid(hist.log[i].payload)].isDeleted

\* A bookmark with a URL and a title was applied and its tombstone after it
C22_Witness ==
    /\ pc = "applicator"
    /\ Len(hist.log) >= 2
    /\ hist.log[Len(hist.log) - 1].payload.id = "bookmarkXXXX"
    /\ hist.log[Len(hist.log) - 1].payload.bmkUri = "http://x/"
    /\ hist.log[Len(hist.log)].payload = new_tombstone("bookmarkXXXX")
    /\ db.synced["bookmarkXXXX"].isDeleted
    /\ Len(db.places) >= 1

\* C23: the mirror row of the record that apply_payload has just stored
\* needs merging, whatever kind the record is of and whatever the row was
\* before.
C23_NeedsMerge ==
    (pc = "applicator" /\ Len(hist.log) >= 1) =>
        LET g == row_guid(hist.log[Len(hist.log)].payload) IN
        /\ g \in DOMAIN db.synced
        /\ db.synced[g].needsMerge

\* The record of a root was applied, whose mirror row was merged before
C23_Witness ==
    /\ pc = "applicator"
    /\ Len(hist.log) = 1
    /\ hist.log[1].payload.id = "toolbar"
    /\ ~EmptyDb.synced["toolbar_____"].needsMerge
    /\ db.synced["toolbar_____"].needsMerge

\* What apply_payload writes for the last record when the store is new
Fresh == apply_payload(EmptyDb, ServerTime(1), hist.payload)

\* C24: the validity, the URL and the feed and site URLs of the row written
\* for a record are those that the same payload gets in a new store: they
\* do not depend on what the mirror and the places table held before, so a
\* payload that is stored Valid once is stored Valid every time.
C24_ValidityOfContent ==
    (pc = "content" /\ cycles >= 1) =>
        LET g == id_to_guid(hist.payload.id) IN
        /\ Written.validity = Fresh.synced[g].validity
        /\ StoredUrl = PlaceUrl(Fresh.places, Fresh.synced[g].placeId)
        /\ Written.feedUrl = Fresh.synced[g].feedUrl
        /\ Written.siteUrl = Fresh.synced[g].siteUrl

\* A bookmark that was stored Valid was applied once more
C24_Witness ==
    /\ Applied("bookmark")
    /\ cycles = 2
    /\ hist.pre = Fresh
    /\ hist.pre.synced[id_to_guid(hist.payload.id)].validity = "Valid"
    /\ hist.pre.synced[id_to_guid(hist.payload.id)].placeId # NoPlace
    /\ Written.validity = "Valid"

\* C25: no URL is in two rows of the places table; the rows that were there
\* before the last record was applied are there with the ids they had, and
\* when the URL of the record was there already no row was added and the
\* mirror row has the id of that row.
C25_InterningUnique ==
    pc = "content" =>
        /\ \A i, j \in 1..Len(db.places) : db.places[i] = db.places[j] => i = j
        /\ Len(db.places) >= Len(hist.pre.places)
        /\ \A i \in 1..Len(hist.pre.places) : db.places[i] = hist.pre.places[i]
        /\ (cycles >= 1 /\ StoredUrl # NULL
                /\ PlaceIdOf(hist.pre.places, StoredUrl) # NoPlace) =>
              /\ db.places = hist.pre.places
              /\ Written.placeId = PlaceIdOf(hist.pre.places, StoredUrl)

\* A query was applied whose URL the bookmark applied before it had stored
C25_Witness ==
    /\ Applied("query")
    /\ hist.payload.id = "queryQQQQQQQ"
    /\ hist.payload.bmkUri = "place:sort=1"
    /\ "titledTTTTTT" \in DOMAIN hist.pre.synced
    /\ hist.pre.synced["titledTTTTTT"].placeId # NoPlace
    /\ Written.placeId = hist.pre.synced["titledTTTTTT"].placeId
    /\ Len(db.places) = 1

\* The three conditions of the gate, on the store that apply was called on
MirrorToMerge(d) ==
    {g \in DOMAIN d.synced :
        d.synced[g].needsMerge
        /\ (~d.synced[g].isDeleted \/ g \in DOMAIN d.bookmarks)}

LocalChanged(d) ==
    {g \in DOMAIN d.bookmarks :
        g # RootGuid /\ d.bookmarks[g].syncChangeCounter > 0}

Gate(d) == MirrorToMerge(d) # {} \/ LocalChanged(d) # {} \/ d.deleted # {}

\* C26: when none of the three conditions held as apply was called, apply
\* has returned Ok and the store, staging tables included, is as it was,
\* whatever the merger had handed over; when one of them held, apply went on:
\* it has staged every local tombstone, or it has failed.  Between two
\* cycles and before the merge the same is seen on a call of apply: with no
\* condition it gives back the store as it is even when its first statement
\* would fail, with a condition the failure of that statement is its result.
C26_Gate ==
    /\ pc \in {"idle", "merge"} =>
          \A m \in MergerOutputs(db) :
              IF Gate(db)
              THEN ~apply(db, m, 1).ok
              ELSE apply(db, m, 0) = Ok(db) /\ apply(db, m, 1) = Ok(db)
    /\ pc = "fetch" =>
          IF Gate(hist.pre)
          THEN /\ hist.result = "applied"
               /\ hist.pre.deleted \subseteq DOMAIN db.itemsToUpload
               /\ db.mergedTree = {}
          ELSE /\ hist.result = "skipped"
               /\ db = hist.pre
    /\ Finished("apply_err") => Gate(hist.pre)

\* apply was called with nothing to do on a tree that holds an item
C26_Witness ==
    /\ pc = "fetch"
    /\ ~Gate(hist.pre)
    /\ db = hist.pre
    /\ "bookmarkAAAA" \in DOMAIN db.bookmarks

\* The children that folder g has in moz_bookmarks of store d, by position
ChildrenOf(d, g) ==
    children_in_order({[guid |-> c, position |-> d.bookmarks[c].position] :
                          c \in {b \in DOMAIN d.bookmarks :
                                    d.bookmarks[b].parentGuid = g}})

\* C27: the children of each folder record that fetch_outgoing_records gives
\* are the rows of structureToUpload for the folder as they were staged, by
\* position, which are the children the folder had in moz_bookmarks then;
\* items added to moz_bookmarks after the staging are not among them.
C27_StagedChildren ==
    pc = "uploading" =>
        \A e \in outgoing :
            e.type = "folder" =>
                LET g == id_to_guid(e.id) IN
                /\ e.children =
                      children_in_order({r \in hist.pre.structureToUpload :
                                            r.parentId = hist.pre.itemsToUpload[g].id})
                /\ e.children = ChildrenOf(hist.pre, g)

\* The record of a folder was fetched after an item was added to the folder
\* that was not there when the folder was staged
C27_Witness ==
    /\ pc = "uploading"
    /\ \E e \in outgoing :
          /\ e.type = "folder"
          /\ e.children # <<>>
          /\ ChildrenOf(db, id_to_guid(e.id)) # e.children
          /\ Len(ChildrenOf(db, id_to_guid(e.id))) > Len(e.children)

\* The rows of itemsToUpload that are tombstones
StagedTombstones(d) == {g \in DOMAIN d.itemsToUpload : d.itemsToUpload[g].isDeleted}

\* C28 (as stated): once fetch_outgoing_records has run, there is for every
\* staged tombstone exactly one payload with the wire id of its GUID, and
\* that payload is {id, deleted: true}; a call that ends without a changeset
\* has given no payload for any row.
C28_Original ==
    /\ pc = "uploading" =>
          \A g \in StagedTombstones(db) :
              LET sent == {e \in outgoing : e.id = guid_to_id(g)} IN
              /\ Cardinality(sent) = 1
              /\ \A e \in sent : e = OutgoingRecord(guid_to_id(g), TRUE, NULL, NULL,
                                                    <<>>, NULL)
    /\ Finished("outgoing_err") => StagedTombstones(db) = {}

\* C29 (as stated): after a bookmark, a query, a folder or a livemark is
\* applied whose title is absent or is the empty string, the title of its
\* mirror row is NULL.
C29_Original ==
    (/\ pc = "content"
     /\ cycles >= 1
     /\ hist.payload.type \in {"bookmark", "query", "folder", "livemark"}
     /\ hist.payload.title \in {NULL, ""}) =>
        Written.title = NULL

\* C30: when the merger is about to be started, no record of the batch is
\* left to be applied, no ingestion transaction is open, and every record of
\* the batch has its mirror row, written in this cycle; when the ingestion
\* has failed, the cycle has ended with no outgoing records and without the
\* time of this batch written as the time of the last sync.
C30_MergeAfterIngestion ==
    /\ pc = "merge" =>
          /\ inbound.changes = <<>>
          /\ saved = NoTx
          /\ \A i \in 1..Len(inbound.all) :
                /\ row_guid(inbound.all[i]) \in DOMAIN db.synced
                /\ db.synced[row_guid(inbound.all[i])].serverModified
                      = as_millis(inbound.timestamp)
          /\ db.meta = {as_millis(inbound.timestamp)}
    /\ Finished("ingest_err") =>
          /\ outgoing = {}
          /\ as_millis(inbound.timestamp) \notin db.meta
          /\ db.mergedTree = {}

\* The merger is about to be started on a batch of two records
C30_Witness ==
    /\ pc = "merge"
    /\ Len(inbound.all) = 2
    /\ inbound.changes = <<>>
    /\ \A i \in 1..2 : row_guid(inbound.all[i]) \in DOMAIN db.synced

(***************************************************************************)
(* Merged mirror rows.                                                     *)
(***************************************************************************)
\* The mirror rows still flagged needsMerge
Unmerged(d) == {g \in DOMAIN d.synced : d.synced[g].needsMerge}

\* The cycle has passed a merge whose apply went through
PastMerge ==
    \/ pc \in {"fetch", "uploading"}
    \/ pc = "done" /\ hist.result \in {"outgoing_err", "upload_err", "finish_ok",
                                       "finish_err"}

WeaklyStaged(d) ==
    {g \in DOMAIN d.itemsToUpload :
        ~d.itemsToUpload[g].isDeleted /\ d.itemsToUpload[g].syncChangeCounter = 0}

\* The merge from `before` to `after` took the remote side of g although the
\* local item is the older one
WeakCondition(before, after, g) ==
    /\ g \in DOMAIN before.synced
    /\ before.synced[g].needsMerge
    /\ ~before.synced[g].isDeleted
    /\ g \in DOMAIN after.bookmarks
    /\ after.bookmarks[g].dateAdded < before.synced[g].dateAdded

\* C32: when apply has returned, idsToWeaklyUpload is empty, and an item is
\* staged with an unchanged counter only if the merge of this very cycle took
\* the remote side of it while its local dateAdded is the earlier one; its
\* syncChangeCounter is 0.  A weak upload of an earlier cycle that was not
\* acknowledged is therefore not staged in this one.
C32_Original ==
    pc = "fetch" =>
        /\ db.idsToWeaklyUpload = {}
        /\ \A g \in WeaklyStaged(db) :
              /\ g \in DOMAIN db.bookmarks
              /\ db.bookmarks[g].syncChangeCounter = 0
              /\ hist.result = "applied"
              /\ WeakCondition(hist.pre, db, g)

(***************************************************************************)
(* The ingestion loop of apply_incoming, statement by statement: the       *)
(* time-chunked transaction may commit where maybe_commit is called.       *)
(***************************************************************************)
\* The statements apply_payload executes for one record
StatementCount(payload) ==
    IF payload.deleted THEN 1
    ELSE IF payload.type = "folder" THEN 1 + Len(payload.children)
    ELSE IF payload.type \in {"bookmark", "query"} /\ payload.bmkUri # NULL THEN 2
    ELSE 1

\* The k-th statement of apply_payload: for a folder the REPLACE of its mirror
\* row and then one REPLACE per child, for an item with a URL the INSERT OR
\* IGNORE into moz_places and then the REPLACE of its mirror row
apply_statement(d, timestamp, payload, k) ==
    IF ~payload.deleted /\ payload.type = "folder"
    THEN IF k = 1
         THEN [d EXCEPT !.synced = store_incoming_folder(d, timestamp, payload).synced]
         ELSE [d EXCEPT !.structure =
                    Put(@, payload.children[k - 1],
                        [parentGuid |-> id_to_guid(payload.id), position |-> k - 2])]
    ELSE IF k < StatementCount(payload)
         THEN [d EXCEPT !.places = apply_payload(d, timestamp, payload).places]
         ELSE apply_payload(d, timestamp, payload)

\* apply_incoming opens the time-chunked transaction
ChunkBegin ==
    /\ pc = "download"
    /\ \E changes \in Batches :
          inbound' = [timestamp |-> ServerTime(cycles), changes |-> changes,
                      all |-> changes]
    /\ saved' = db
    /\ pc' = "ingest"
    /\ hist' = [pre |-> db, statement |-> 0]
    /\ UNCHANGED <<db, outgoing, request, cycles>>

\* One statement of apply_payload for the record at the head
StoreStatement ==
    /\ pc \in {"ingest", "apply_payload"}
    /\ inbound.changes # <<>>
    /\ from_payload_ok(Head(inbound.changes))
    /\ LET payload == Head(inbound.changes)
           k == hist.statement + 1
       IN  /\ db' = apply_statement(db, inbound.timestamp, payload, k)
           /\ IF k = StatementCount(payload)
              THEN /\ pc' = "maybe_commit"
                   /\ hist' = [hist EXCEPT !.statement = 0]
                   /\ inbound' = [inbound EXCEPT !.changes = Tail(@)]
              ELSE /\ pc' = "apply_payload"
                   /\ hist' = [hist EXCEPT !.statement = k]
                   /\ UNCHANGED inbound
    /\ UNCHANGED <<saved, outgoing, request, cycles>>

\* Variant: the chunk may also be committed between two statements of a
\* record.
MaybeCommit_anywhere ==
    /\ pc \in {"apply_payload", "maybe_commit"}
    /\ saved' = db
    /\ pc' = IF pc = "maybe_commit" THEN "ingest" ELSE pc
    /\ saved' # saved \/ pc' # pc
    /\ UNCHANGED <<db, inbound, outgoing, request, cycles, hist>>

\* tx.maybe_commit() after apply_payload has returned: the chunk is committed
\* when its time is up
MaybeCommit ==
    /\ pc = "maybe_commit"
    /\ \E chunk_ends \in BOOLEAN : saved' = IF chunk_ends THEN db ELSE saved
    /\ pc' = "ingest"
    /\ UNCHANGED <<db, inbound, outgoing, request, cycles, hist>>

\* A statement or a commit fails, or the process stops: what is left is what
\* was committed
ChunkFail ==
    /\ pc \in {"ingest", "apply_payload", "maybe_commit"}
    /\ db' = rollback(saved, db)
    /\ saved' = NoTx
    /\ pc' = "done"
    /\ UNCHANGED <<inbound, outgoing, request, cycles, hist>>

NextChunk ==
    \/ ChunkBegin
    \/ StoreStatement
    \/ MaybeCommit
    \/ ChunkFail
    \/ IngestCommit

SpecChunk == InitBatch /\ [][NextChunk]_vars

\* The store with the first k records of the batch applied and nothing else
ChunkPrefix(k) ==
    ApplyAll(hist.pre, [i \in 1..k |-> [timestamp |-> inbound.timestamp,
                                       payload |-> inbound.all[i]]])

\* What a reader of the database file finds
Committed == IF pc \in {"ingest", "apply_payload", "maybe_commit"} THEN saved ELSE db

\* C33: at every moment from the opening of the time-chunked transaction on,
\* the committed store is the store with the records of a prefix of the batch
\* applied in full and no statement of any other record; a folder's mirror
\* row is committed only together with the structure rows of all its
\* children.
C33_RecordAtomic ==
    pc # "download" =>
        /\ \E k \in 0..(Len(inbound.all) - Len(inbound.changes)) :
              Committed = ChunkPrefix(k)
        /\ \A i \in 1..Len(inbound.all) :
              LET p == inbound.all[i]
                  F == id_to_guid(p.id)
              IN  (/\ ~p.deleted
                   /\ p.type = "folder"
                   /\ Committed.synced[F] # hist.pre.synced[F]) =>
                      \A c \in Range(p.children) :
                          /\ c \in DOMAIN Committed.structure
                          /\ Committed.structure[c].parentGuid = F

\* The first record of the batch is committed and the folder that follows it
\* has its mirror row written, but not yet the row of its child.
C33_Witness ==
    /\ pc = "apply_payload"
    /\ Len(inbound.all) = 2
    /\ saved = ChunkPrefix(1)
    /\ saved # hist.pre
    /\ Head(inbound.changes).type = "folder"
    /\ db.synced["menu________"] # saved.synced["menu________"]
    /\ "bookmarkCCCC" \notin DOMAIN db.structure

(***************************************************************************)
(* The trees handed to the merger (store.rs).                              *)
(***************************************************************************)
\* The children of one local folder, ORDER BY position
local_children(bookmarks, parent) ==
    children_in_order({[guid |-> g, parentId |-> parent,
                        position |-> bookmarks[g].position] :
                          g \in {b \in DOMAIN bookmarks :
                                    b # RootGuid /\ bookmarks[b].parentGuid = parent}})

\* The rows of the level below `parents`, parent after parent
RECURSIVE local_level_rows(_, _)
local_level_rows(bookmarks, parents) ==
    IF parents = <<>> THEN <<>>
    ELSE local_children(bookmarks, Head(parents))
            \o local_level_rows(bookmarks, Tail(parents))

\* FROM localItems s ORDER BY s.level, s.parentId, s.position
RECURSIVE local_rows(_, _)
local_rows(bookmarks, parents) ==
    LET next == local_level_rows(bookmarks, parents) IN
    IF next = <<>> THEN <<>> ELSE next \o local_rows(bookmarks, next)

\* Variant: every node is flagged as changed.
fetch_local_tree_changed(d) ==
    LET guids == local_rows(d.bookmarks, <<RootGuid>>) IN
    [items |-> [i \in 1..Len(guids) |->
                    [guid |-> guids[i],
                     parentGuid |-> d.bookmarks[guids[i]].parentGuid,
                     kind |-> type_to_kind(d.bookmarks[guids[i]].type,
                                           d.bookmarks[guids[i]].url),
                     needs_merge |-> TRUE]],
     deleted |-> d.deleted]

\* fetch_local_tree: the items in the order in which they are handed to the
\* tree builder, and the guids noted as deleted
fetch_local_tree(d) ==
    LET guids == local_rows(d.bookmarks, <<RootGuid>>) IN
    [items |-> [i \in 1..Len(guids) |->
                    [guid |-> guids[i],
                     parentGuid |-> d.bookmarks[guids[i]].parentGuid,
                     kind |-> type_to_kind(d.bookmarks[guids[i]].type,
                                           d.bookmarks[guids[i]].url),
                     needs_merge |-> d.bookmarks[guids[i]].syncChangeCounter > 0]],
     deleted |-> d.deleted]

\* The place of guid g among the items of a tree (0: not there)
ItemIndex(tree, g) ==
    IF \E i \in 1..Len(tree.items) : tree.items[i].guid = g
    THEN CHOOSE i \in 1..Len(tree.items) : tree.items[i].guid = g
    ELSE 0

\* node.level(): the root is at level 0, an item one below its parent
RECURSIVE node_level(_, _)
node_level(tree, g) ==
    IF g = RootGuid \/ ItemIndex(tree, g) = 0 THEN 0
    ELSE 1 + node_level(tree, tree.items[ItemIndex(tree, g)].parentGuid)

\* node.is_syncable(): the user roots and what is below them
RECURSIVE is_syncable(_, _)
is_syncable(tree, g) ==
    IF g = RootGuid \/ ItemIndex(tree, g) = 0 THEN FALSE
    ELSE IF g \in UserRoots THEN TRUE
    ELSE is_syncable(tree, tree.items[ItemIndex(tree, g)].parentGuid)

\* C34: the tree fetch_local_tree builds from the store holds every local item
\* below the root exactly once, each after its parent, flagged needs_merge
\* exactly when its syncChangeCounter is above 0; the user roots are at level
\* 1 and syncable, every other item is one level below its parent and
\* syncable as its parent is; the guids noted as deleted are those of the
\* local tombstone table.
C34_LocalTree ==
    LET tree == fetch_local_tree(db)
        n == Len(tree.items)
    IN  /\ {tree.items[i].guid : i \in 1..n} = localItems(db.bookmarks)
        /\ \A i, j \in 1..n : tree.items[i].guid = tree.items[j].guid => i = j
        /\ \A i \in 1..n :
              LET item == tree.items[i] IN
              /\ item.parentGuid = db.bookmarks[item.guid].parentGuid
              /\ \/ item.parentGuid = RootGuid
                 \/ \E j \in 1..(i - 1) : tree.items[j].guid = item.parentGuid
              /\ item.needs_merge <=> db.bookmarks[item.guid].syncChangeCounter > 0
              /\ node_level(tree, item.guid) = 1 + node_level(tree, item.parentGuid)
              /\ item.guid \in UserRoots =>
                    node_level(tree, item.guid) = 1 /\ is_syncable(tree, item.guid)
              /\ item.parentGuid # RootGuid =>
                    (is_syncable(tree, item.guid) <=> is_syncable(tree, item.parentGuid))
        /\ node_level(tree, RootGuid) = 0
        /\ ~is_syncable(tree, RootGuid)
        /\ tree.deleted = db.deleted

\* As in test_fetch_local_tree: a changed bookmark at level 2 under a user
\* root, another user root that is unchanged; and a local tombstone.
C34_Witness ==
    LET tree == fetch_local_tree(db) IN
    /\ \E i \in 1..Len(tree.items) :
          /\ tree.items[i].guid = "bookmarkCCCC"
          /\ tree.items[i].needs_merge
          /\ node_level(tree, "bookmarkCCCC") = 2
          /\ is_syncable(tree, "bookmarkCCCC")
    /\ \E i \in 1..Len(tree.items) :
          /\ tree.items[i].guid = "menu________"
          /\ ~tree.items[i].needs_merge
    /\ tree.deleted = {"bookmarkAAAA"}

\* SELECT guid, parentGuid FROM moz_bookmarks_synced_structure ORDER BY
\* parentGuid, position: the rows of one parent follow each other in the
\* order of their positions
RECURSIVE structure_in_order(_)
structure_in_order(rows) ==
    IF rows = {} THEN <<>>
    ELSE LET parent == CHOOSE p \in {r.parentId : r \in rows} : TRUE
             group  == {r \in rows : r.parentId = parent}
             guids  == children_in_order(group)
         IN  [i \in 1..Len(guids) |-> [guid |-> guids[i], parentGuid |-> parent]]
                \o structure_in_order(rows \ group)

\* Variant: every row marked as deleted is noted as a tombstone.
fetch_remote_tree_deleted(d) ==
    [items |-> {[guid |-> g, kind |-> d.synced[g].kind,
                 needs_merge |-> d.synced[g].needsMerge,
                 validity |-> d.synced[g].validity,
                 parentGuid |-> d.synced[g].parentGuid] :
                    g \in {x \in DOMAIN d.synced :
                              ~d.synced[x].isDeleted /\ x # RootGuid}},
     structure |-> structure_in_order(
                    {[guid |-> g, parentId |-> d.structure[g].parentGuid,
                      position |-> d.structure[g].position] :
                        g \in DOMAIN d.structure \ {RootGuid}}),
     deleted |-> {g \in DOMAIN d.synced : d.synced[g].isDeleted}]

\* fetch_remote_tree: the items handed to the tree builder, each with the
\* parent its own row names (by_parent_guid; NULL: none), the parents the
\* structure table names (by_children) in the order they are read, and the
\* guids noted as deleted
fetch_remote_tree(d) ==
    [items |-> {[guid |-> g, kind |-> d.synced[g].kind,
                 needs_merge |-> d.synced[g].needsMerge,
                 validity |-> d.synced[g].validity,
                 parentGuid |-> d.synced[g].parentGuid] :
                    g \in {x \in DOMAIN d.synced :
                              ~d.synced[x].isDeleted /\ x # RootGuid}},
     structure |-> structure_in_order(
                    {[guid |-> g, parentId |-> d.structure[g].parentGuid,
                      position |-> d.structure[g].position] :
                        g \in DOMAIN d.structure \ {RootGuid}}),
     deleted |-> {g \in DOMAIN d.synced :
                    d.synced[g].isDeleted /\ d.synced[g].needsMerge}]

\* C35: when the merger is called, the tree fetch_remote_tree builds has one
\* node for every mirror row that is not deleted and is not the root row,
\* with needs_merge, validity and the parentGuid of the row; it has one
\* by_children entry for every row of the structure table, the entries of
\* one parent next to each other in the order of their positions; the guids
\* noted as deleted are those of the rows with isDeleted and needsMerge; no
\* guid is both a node and a noted tombstone.
C35_RemoteTree ==
    pc = "merge" =>
        LET tree == fetch_remote_tree(db)
            n == Len(tree.structure)
        IN  /\ {item.guid : item \in tree.items}
                  = {g \in DOMAIN db.synced \ {RootGuid} : ~db.synced[g].isDeleted}
            /\ \A item \in tree.items :
                  /\ item.needs_merge = db.synced[item.guid].needsMerge
                  /\ item.validity = db.synced[item.guid].validity
                  /\ item.kind = db.synced[item.guid].kind
                  /\ item.parentGuid = db.synced[item.guid].parentGuid
            /\ \A a, b \in tree.items : a.guid = b.guid => a = b
            /\ {tree.structure[i].guid : i \in 1..n} = DOMAIN db.structure \ {RootGuid}
            /\ \A i, j \in 1..n : tree.structure[i].guid = tree.structure[j].guid => i = j
            /\ \A i \in 1..n :
                  tree.structure[i].parentGuid = db.structure[tree.structure[i].guid].parentGuid
            /\ \A i, j \in 1..n :
                  (i < j /\ tree.structure[i].parentGuid = tree.structure[j].parentGuid) =>
                      /\ db.structure[tree.structure[i].guid].position
                            <= db.structure[tree.structure[j].guid].position
                      /\ \A k \in i..j :
                            tree.structure[k].parentGuid = tree.structure[i].parentGuid
            /\ tree.deleted = {g \in DOMAIN db.synced :
                                  db.synced[g].isDeleted /\ db.synced[g].needsMerge}
            /\ tree.deleted \cap {item.guid : item \in tree.items} = {}

\* The merger is called with a mirror that holds a downloaded bookmark still
\* to be merged, named as a child by the menu folder, and the tombstone of an
\* item whose deletion was uploaded in the cycle before, which is not noted.
C35_Witness ==
    /\ pc = "merge"
    /\ LET tree == fetch_remote_tree(db) IN
       /\ \E item \in tree.items : item.guid = "bookmarkCCCC" /\ item.needs_merge
       /\ \E item \in tree.items : item.guid = "unfiled_____" /\ ~item.needs_merge
       /\ \E i \in 1..Len(tree.structure) :
             tree.structure[i] = [guid |-> "bookmarkCCCC", parentGuid |-> "menu________"]
       /\ "bookmarkAAAA" \in DOMAIN db.synced
       /\ db.synced["bookmarkAAAA"].isDeleted
       /\ "bookmarkAAAA" \notin tree.deleted

\* The rows fetch_new_remote_contents selects: joined to their structure
\* row, not deleted, to be merged, without a local item, not under the root
NewRemoteRows(d) ==
    {g \in DOMAIN d.synced \cap DOMAIN d.structure :
        /\ ~d.synced[g].isDeleted
        /\ d.synced[g].needsMerge
        /\ g \notin DOMAIN d.bookmarks
        /\ d.structure[g].parentGuid # RootGuid}

\* The Content built for one selected row
remote_content(d, g) ==
    LET v == d.synced[g]
        title == IF v.title = NULL THEN "" ELSE v.title
    IN  CASE v.kind \in {"Bookmark", "Query"} ->
                [shape |-> "Bookmark", title |-> title,
                 url_href |-> PlaceUrl(d.places, v.placeId), position |-> 0]
          [] v.kind = "Folder" ->
                [shape |-> "Folder", title |-> title, url_href |-> NULL, position |-> 0]
          [] OTHER ->
                [shape |-> "Separator", title |-> "", url_href |-> NULL,
                 position |-> d.structure[g].position]

\* fetch_new_remote_contents: ok = FALSE when a column cannot be read (the
\* url of a Bookmark or Query row is NULL, and url_href is a String);
\* Livemark rows are passed over
fetch_new_remote_contents(d) ==
    LET rows == NewRemoteRows(d) IN
    IF \E g \in rows : /\ d.synced[g].kind \in {"Bookmark", "Query"}
                       /\ PlaceUrl(d.places, d.synced[g].placeId) = NULL
    THEN [ok |-> FALSE, contents |-> <<>>]
    ELSE [ok |-> TRUE,
          contents |-> [g \in {x \in rows : d.synced[x].kind # "Livemark"} |->
                            remote_content(d, g)]]

\* C36 (as stated): fetch_new_remote_contents returns a content for exactly
\* the mirror rows that are to be merged, are not deleted, have no local item
\* of the same guid and are of kind Bookmark, Query, Folder or Separator,
\* whether or not a folder's children list names them; Bookmark and Query
\* rows get the bookmark shape.
C36_Original ==
    LET result == fetch_new_remote_contents(db)
        expected == {g \in DOMAIN db.synced :
                        /\ db.synced[g].needsMerge
                        /\ ~db.synced[g].isDeleted
                        /\ g \notin DOMAIN db.bookmarks
                        /\ db.synced[g].kind \in {"Bookmark", "Query", "Folder",
                                                  "Separator"}}
    IN  /\ result.ok
        /\ DOMAIN result.contents = expected
        /\ \A g \in expected :
              (result.contents[g].shape = "Bookmark")
                  <=> db.synced[g].kind \in {"Bookmark", "Query"}

\* C37: right after a folder record with the children c0 .. c(n-1), all
\* different, has been ingested, the structure table holds for each ci one
\* row, with the folder's guid as parentGuid and i as position.
C37_StructurePositions ==
    hist.log # <<>> =>
        LET last == hist.log[Len(hist.log)].payload
            F == id_to_guid(last.id)
            n == Len(last.children)
        IN  (/\ ~last.deleted
             /\ last.type = "folder"
             /\ \A i, j \in 1..n : last.children[i] = last.children[j] => i = j) =>
                \A i \in 1..n :
                    /\ last.children[i] \in DOMAIN db.structure
                    /\ db.structure[last.children[i]]
                          = [parentGuid |-> F, position |-> i - 1]

\* The folder was ingested with one child and then with two, which moves
\* the child it had from position 0 to position 1.
C37_Witness ==
    /\ Len(hist.log) = 2
    /\ hist.log[1].payload.type = "folder"
    /\ hist.log[1].payload.children = <<"bookmarkYYYY">>
    /\ hist.log[2].payload.type = "folder"
    /\ hist.log[2].payload.children = <<"bookmarkXXXX", "bookmarkYYYY">>
    /\ db.structure["bookmarkXXXX"] = [parentGuid |-> "folderFFFFFF", position |-> 0]
    /\ db.structure["bookmarkYYYY"] = [parentGuid |-> "folderFFFFFF", position |-> 1]

(***************************************************************************)
(* insert_bookmark called on its own (bookmarks.rs), for the three kinds   *)
(* of InsertableBookmark.  hist keeps the last call and what it returned.  *)
(***************************************************************************)
MaxInserts == 3     \* calls of insert_bookmark in a row

\* The Err insert_bookmark returns before it touches the table ("Ok": none)
insert_error(d, parent_guid) ==
    IF parent_guid = RootGuid THEN "InvalidGuid"
    ELSE IF parent_guid \notin DOMAIN d.bookmarks THEN "InvalidParent"
    ELSE IF d.bookmarks[parent_guid].type # "folder" THEN "InvalidParent"
    ELSE "Ok"

\* insert_bookmark for a BookmarkSeparator or a BookmarkFolder: after the
\* reordering, the INSERT is run with :guid, :syncStatus, :syncChangeCounter
\* and the dates not bound, that is NULL.  Whether moz_bookmarks takes such a
\* row is for its schema to say: either the statement fails (`stored` FALSE),
\* with the reordering already done, or a row without guid is stored, whose
\* counter reads as 0.
insert_bookmark_incomplete(d, type, parent_guid, position, stored) ==
    LET count == child_count(d.bookmarks, parent_guid)
        index == IF position = Append_position THEN count ELSE Min(position, count)
        grand == d.bookmarks[parent_guid].parentGuid
        moved == IF position = Append_position THEN d.bookmarks
                 ELSE [g \in DOMAIN d.bookmarks |->
                        IF d.bookmarks[g].parentGuid = grand
                           /\ d.bookmarks[g].position >= index
                        THEN [d.bookmarks[g] EXCEPT !.position = @ + 1]
                        ELSE d.bookmarks[g]]
    IN  IF stored /\ NULL \notin DOMAIN moved
        THEN Ok([d EXCEPT !.bookmarks =
                    Put(moved, NULL, BookmarkRow(parent_guid, index, type, NULL, 0,
                                                 NULL, NoDate))])
        ELSE Err([d EXCEPT !.bookmarks = moved])

InsertTypes == {"bookmark", "folder", "separator"}

\* Parents: two user roots, the root, a guid that is not there, and an item
\* that is not a folder once it is there
InsertParents ==
    {"unfiled_____", "menu________", RootGuid, "missingMMMMM", "bookmarkAAAA"}

\* Append, Specific(0), Specific(1), and a Specific index that is too large
InsertPositions == {Append_position, 0, 1, 5}

NoCall == [type |-> NULL, guid |-> NULL, parent_guid |-> NULL, position |-> 0]

InitInsert ==
    /\ db = EmptyDb
    /\ saved = NoTx
    /\ pc = "idle"
    /\ inbound = NoInbound
    /\ outgoing = {}
    /\ request = 0
    /\ cycles = 0
    /\ hist = [pre |-> EmptyDb, call |-> NoCall, result |-> "none", clean |-> TRUE]

\* One call of insert_bookmark; the guid is a new one
InsertCall ==
    /\ pc = "idle"
    /\ cycles < MaxInserts
    /\ cycles' = cycles + 1
    /\ \E type \in InsertTypes, guid \in ItemGuids \ DOMAIN db.bookmarks,
          parent_guid \in InsertParents, position \in InsertPositions,
          stored \in BOOLEAN :
          LET error == insert_error(db, parent_guid)
              result == IF error # "Ok" THEN Err(db)
                        ELSE IF type = "bookmark"
                        THEN insert_bookmark(db, guid, parent_guid, position,
                                             "http://a/", 1)
                        ELSE insert_bookmark_incomplete(db, type, parent_guid,
                                                        position, stored)
              returned == IF error # "Ok" THEN error
                          ELSE IF result.ok THEN "Ok" ELSE "Error"
          IN  /\ db' = result.db
              /\ hist' = [pre |-> db,
                          call |-> [type |-> type, guid |-> guid,
                                    parent_guid |-> parent_guid,
                                    position |-> position],
                          result |-> returned,
                          clean |-> hist.clean /\ returned = "Ok"]
    /\ UNCHANGED <<saved, pc, inbound, outgoing, request>>

NextInsert == InsertCall

SpecInsert == InitInsert /\ [][NextInsert]_vars

\* The children of folder F
LocalChildren(d, F) == {g \in DOMAIN d.bookmarks : d.bookmarks[g].parentGuid = F}

\* C38 (as stated): after calls of insert_bookmark that all succeeded, the
\* positions of the children of every folder are 0 .. n-1, each once, and the
\* last call has left the children of every folder other than its parent at
\* their positions.
C38_Original ==
    (hist.clean /\ hist.result = "Ok") =>
        /\ \A F \in {g \in DOMAIN db.bookmarks : db.bookmarks[g].type = "folder"} :
              /\ {db.bookmarks[c].position : c \in LocalChildren(db, F)}
                    = 0..(Cardinality(LocalChildren(db, F)) - 1)
              /\ \A a, b \in LocalChildren(db, F) :
                    db.bookmarks[a].position = db.bookmarks[b].position => a = b
        /\ \A g \in DOMAIN hist.pre.bookmarks :
              hist.pre.bookmarks[g].parentGuid # hist.call.parent_guid =>
                  db.bookmarks[g].position = hist.pre.bookmarks[g].position

\* C39 (as stated): a call of insert_bookmark that succeeded, for a bookmark,
\* a folder or a separator, has stored the item under the returned guid with
\* syncStatus New and syncChangeCounter 1; with the root as parent the call
\* fails with InvalidGuid, with a parent that is not there or is not a folder
\* it fails with InvalidParent, and a call that failed so leaves the
\* bookmarks table as it was.
C39_Original ==
    /\ hist.result = "Ok" =>
          /\ hist.call.guid \in DOMAIN db.bookmarks
          /\ db.bookmarks[hist.call.guid].type = hist.call.type
          /\ db.bookmarks[hist.call.guid].syncStatus = "New"
          /\ db.bookmarks[hist.call.guid].syncChangeCounter = 1
    /\ hist.result # "none" =>
          /\ hist.call.parent_guid = RootGuid <=> hist.result = "InvalidGuid"
          /\ (/\ hist.call.parent_guid # RootGuid
              /\ \/ hist.call.parent_guid \notin DOMAIN hist.pre.bookmarks
                 \/ hist.pre.bookmarks[hist.call.parent_guid].type # "folder")
                <=> hist.result = "InvalidParent"
    /\ hist.result \in {"InvalidGuid", "InvalidParent"} =>
          db.bookmarks = hist.pre.bookmarks

====
